---- MODULE Spec2Model ----
(***************************************************************************)
(* Builders of dfcx_scrapi: PageBuilder (builders/pages.py) and            *)
(* TransitionRouteGroupBuilder (builders/transition_route_groups.py).      *)
(* One builder instance is modelled: proto_type is its class, proto_obj    *)
(* the resource object it holds.  Every public method is one action; the   *)
(* method body is an operator from (held object, arguments) to the pair    *)
(* (status, held object afterwards).                                       *)
(***************************************************************************)
EXTENDS Integers, Sequences, FiniteSets, TLC

VARIABLES proto_type, proto_obj, last, pre, before, stats, calls, self, rpc,
          frame

vars == <<proto_type, proto_obj, last, pre, before, stats, calls, self, rpc,
          frame>>

(* Total number of items (parameters, routes, event handlers, route group  *)
(* references) a held Page may contain.                                    *)
MaxPageItems == 2

(* Number of routes a held TransitionRouteGroup may contain.               *)
MaxGroupRoutes == 3

(* Number of parameters, and of routes, of a Page handed to PageStats.     *)
MaxStatsItems == 2

(* Number of calc_* / generate_stats calls made on one PageStats instance. *)
MaxStatsCalls == 2

(* Number of response pages the remote service splits a listing into, and  *)
(* number of entity types on one response page.                            *)
MaxPages == 2

MaxPageSize == 2

----------------------------------------------------------------------------
(* Python argument values.  A string argument is None, a str, or an object *)
(* of another type (an int).                                               *)
PyNone == [kind |-> "None", s |-> ""]
PyInt == [kind |-> "int", s |-> ""]

PyStr(x) == [kind |-> "str", s |-> x]

(* Python truth value of such an argument: None and "" are falsy, the int  *)
(* (7) is truthy.                                                          *)
Truthy(a) == \/ a.kind = "int"
             \/ a.kind = "str" /\ a.s # ""

IsNonemptyStr(a) == a.kind = "str" /\ a.s # ""

(* The value a proto string field takes when it is given the argument:     *)
(* None leaves the field at its default "".                                *)
ToField(a) == IF a.kind = "str" THEN a.s ELSE ""

----------------------------------------------------------------------------
(* Proto messages.  A message is Python-truthy iff one of its fields is    *)
(* set, so a default-constructed message is falsy.                         *)
Fulfillment(messages, webhook, tag, presets) ==
    [messages |-> messages, webhook |-> webhook, tag |-> tag,
     set_parameter_actions |-> presets]

EmptyFulfillment == Fulfillment("", "", "", "")

HiFulfillment == Fulfillment("hi", "", "", "")

TransitionRoute(intent, condition, trigger_fulfillment, target_page, target_flow) ==
    [intent |-> intent, condition |-> condition,
     trigger_fulfillment |-> trigger_fulfillment,
     target_page |-> target_page, target_flow |-> target_flow]

EmptyRoute == TransitionRoute("", "", EmptyFulfillment, "", "")

(* A route object with the given intent and condition and nothing else.    *)
PlainRoute(intent, condition) ==
    TransitionRoute(intent, condition, EmptyFulfillment, "", "")

EventHandler(event, trigger_fulfillment, target_page, target_flow) ==
    [event |-> event, trigger_fulfillment |-> trigger_fulfillment,
     target_page |-> target_page, target_flow |-> target_flow]

EmptyEventHandler == EventHandler("", EmptyFulfillment, "", "")

PlainEventHandler(event) == EventHandler(event, EmptyFulfillment, "", "")

FillBehavior(initial_prompt_fulfillment, reprompt_event_handlers) ==
    [initial_prompt_fulfillment |-> initial_prompt_fulfillment,
     reprompt_event_handlers |-> reprompt_event_handlers]

Parameter(display_name, required, entity_type, is_list, redact, default_value, fill_behavior) ==
    [display_name |-> display_name, required |-> required,
     entity_type |-> entity_type, is_list |-> is_list, redact |-> redact,
     default_value |-> default_value, fill_behavior |-> fill_behavior]

(* proto_obj of a builder that holds nothing is None.  A Page and a        *)
(* TransitionRouteGroup are records of one shape; a TransitionRouteGroup   *)
(* leaves the Page-only fields at their defaults.                          *)
NoObj ==
    [type |-> "None", display_name |-> "",
     entry_fulfillment |-> EmptyFulfillment, parameters |-> <<>>,
     transition_routes |-> <<>>, event_handlers |-> <<>>,
     transition_route_groups |-> <<>>]

Page(display_name, entry_fulfillment) ==
    [NoObj EXCEPT !.type = "Page", !.display_name = display_name,
                  !.entry_fulfillment = entry_fulfillment]

TransitionRouteGroup(display_name, transition_routes) ==
    [NoObj EXCEPT !.type = "TransitionRouteGroup",
                  !.display_name = display_name,
                  !.transition_routes = transition_routes]

(* `if self.proto_obj`: None is falsy, a message is truthy iff a field of  *)
(* it is set.                                                              *)
ProtoTruthy(obj) ==
    /\ obj.type # "None"
    /\ \/ obj.display_name # ""
       \/ obj.entry_fulfillment # EmptyFulfillment
       \/ obj.parameters # <<>>
       \/ obj.transition_routes # <<>>
       \/ obj.event_handlers # <<>>
       \/ obj.transition_route_groups # <<>>

Size(obj) ==
    Len(obj.parameters) + Len(obj.transition_routes)
    + Len(obj.event_handlers) + Len(obj.transition_route_groups)

(* The outcome of a call: how it ended and the object held afterwards.     *)
Ret(status, obj) == [status |-> status, obj |-> obj]

(* The elements of a sequence as a set.                                    *)
Range(seq) == {seq[i] : i \in 1..Len(seq)}

RECURSIVE SelectSeqBy(_, _)
(* The elements of seq whose index is in keep, in their order.             *)
SelectSeqBy(seq, keep) ==
    IF seq = <<>> THEN <<>>
    ELSE LET n == Len(seq)
             front == SelectSeqBy(SubSeq(seq, 1, n - 1), keep)
         IN IF n \in keep THEN Append(front, seq[n]) ELSE front

----------------------------------------------------------------------------
(* Arguments of the Fulfillment kind: None, a Fulfillment, or an object of *)
(* another type (a str).                                                   *)
FfNone == [kind |-> "None", ff |-> EmptyFulfillment]

FfBad == [kind |-> "str", ff |-> EmptyFulfillment]

FfObj(ff) == [kind |-> "Fulfillment", ff |-> ff]

FfTruthy(a) == \/ a.kind = "str"
               \/ a.kind = "Fulfillment" /\ a.ff # EmptyFulfillment

(* Arguments of the `X | List[X]` kind: None, one X ("one"), a list of X   *)
(* ("list"), a truthy object of another type ("other"), or a list holding  *)
(* an object of another type ("mixed").  items are the X objects given.    *)
ObjNone == [kind |-> "None", items |-> <<>>]

ObjBad == [kind |-> "other", items |-> <<>>]

ObjOne(x) == [kind |-> "one", items |-> <<x>>]

ObjList(xs) == [kind |-> "list", items |-> xs]

ObjMixed(xs) == [kind |-> "mixed", items |-> xs]

(* The empty string given where an X or a list of X is expected: an object *)
(* of another type that is falsy, and iterates to nothing.                 *)
ObjEmptyStr == [kind |-> "emptystr", items |-> <<>>]

(* Python truth value of such an argument, empty being the falsy           *)
(* default-constructed message of the kind.                                *)
ObjTruthy(a, empty) ==
    CASE a.kind = "None" -> FALSE
      [] a.kind = "other" -> TRUE
      [] a.kind = "one" -> a.items[1] # empty
      [] a.kind = "list" -> a.items # <<>>
      [] a.kind = "mixed" -> TRUE
      [] a.kind = "emptystr" -> FALSE

(* BuildersCommon._is_type_or_list_of_types: the argument is an object of  *)
(* the declared kind or a list of such objects.                            *)
is_type_or_list_of_types(a) == a.kind \in {"one", "list"}

(* BuildersCommon._check_proto_obj_attr_exist: the builder holds an        *)
(* object.                                                                 *)
check_proto_obj_attr_exist(obj) == obj.type # "None"

----------------------------------------------------------------------------
(* Mutant: the `overwrite` check is left out, so a held Page is replaced   *)
(* whatever the flag says.                                                 *)
Page_create_without_overwrite_check(obj, a) ==
    IF ~(Truthy(a.display_name) /\ a.display_name.kind = "str")
    THEN Ret("ValueError", obj)
    ELSE IF FfTruthy(a.entry_fulfillment)
            /\ a.entry_fulfillment.kind # "Fulfillment"
    THEN Ret("ValueError", obj)
    ELSE LET ef == IF ~FfTruthy(a.entry_fulfillment)
                   THEN EmptyFulfillment
                   ELSE a.entry_fulfillment.ff
         IN Ret("ok", Page(a.display_name.s, ef))

(* PageBuilder._create_new_proto_obj                                       *)
Page_create_new_proto_obj(obj, a) ==
    IF ~(Truthy(a.display_name) /\ a.display_name.kind = "str")
    THEN Ret("ValueError", obj)
    ELSE IF FfTruthy(a.entry_fulfillment)
            /\ a.entry_fulfillment.kind # "Fulfillment"
    THEN Ret("ValueError", obj)
    ELSE IF ProtoTruthy(obj) /\ ~a.overwrite
    THEN Ret("UserWarning", obj)
    ELSE IF a.overwrite \/ ~ProtoTruthy(obj)
    THEN LET ef == IF ~FfTruthy(a.entry_fulfillment)
                   THEN EmptyFulfillment
                   ELSE a.entry_fulfillment.ff
         IN Ret("ok", Page(a.display_name.s, ef))
    ELSE Ret("ok", obj)

(* Mutant: an overwriting create renames the held group and adds the seed  *)
(* routes to the routes it already has.                                    *)
TRG_create_keeping_routes(obj, a) ==
    IF ~(Truthy(a.display_name) /\ a.display_name.kind = "str")
    THEN Ret("ValueError", obj)
    ELSE IF ObjTruthy(a.transition_routes, EmptyRoute)
            /\ ~(a.transition_routes.kind \in {"one", "list"})
    THEN Ret("ValueError", obj)
    ELSE IF ProtoTruthy(obj) /\ ~a.overwrite
    THEN Ret("UserWarning", obj)
    ELSE LET trs == IF ~ObjTruthy(a.transition_routes, EmptyRoute)
                    THEN <<>>
                    ELSE a.transition_routes.items
         IN Ret("ok", TransitionRouteGroup(
                          a.display_name.s, obj.transition_routes \o trs))

(* TransitionRouteGroupBuilder._create_new_proto_obj                       *)
TRG_create_new_proto_obj(obj, a) ==
    IF ~(Truthy(a.display_name) /\ a.display_name.kind = "str")
    THEN Ret("ValueError", obj)
    ELSE IF ObjTruthy(a.transition_routes, EmptyRoute)
            /\ ~(a.transition_routes.kind \in {"one", "list"})
    THEN Ret("ValueError", obj)
    ELSE IF ProtoTruthy(obj) /\ ~a.overwrite
    THEN Ret("UserWarning", obj)
    ELSE IF a.overwrite \/ ~ProtoTruthy(obj)
    THEN LET trs == IF ~ObjTruthy(a.transition_routes, EmptyRoute)
                    THEN <<>>
                    ELSE a.transition_routes.items
         IN Ret("ok", TransitionRouteGroup(a.display_name.s, trs))
    ELSE Ret("ok", obj)

----------------------------------------------------------------------------
(* Leaf builders.  A leaf builder call yields (status, message built).     *)
Built(status, msg) == [status |-> status, msg |-> msg]

(* FulfillmentBuilder: create_new_proto_obj(webhook, tag), then            *)
(* add_response_message(message), then add_parameter_presets when a       *)
(* parameter_map is given.  An argument of the wrong type is rejected, and *)
(* so is a webhook without its tag.  A message of None adds no message.    *)
FulfillmentBuilder_build(message, webhook, tag, parameter_map) ==
    IF \/ webhook.kind = "int" \/ tag.kind = "int"
       \/ Truthy(webhook) /\ ~Truthy(tag)
    THEN Built("ValueError", EmptyFulfillment)
    ELSE IF message.kind = "int"
    THEN Built("ValueError", EmptyFulfillment)
    ELSE IF parameter_map.kind = "int"
    THEN Built("ValueError", EmptyFulfillment)
    ELSE Built("ok", Fulfillment(ToField(message), ToField(webhook),
                                 ToField(tag), ToField(parameter_map)))

(* TransitionRouteBuilder.create_new_proto_obj: the arguments have their   *)
(* types, at least one of intent and condition is given and at most one of *)
(* target_page and target_flow.                                            *)
TransitionRouteBuilder_create_new_proto_obj(intent, condition, trigger_fulfillment, target_page, target_flow) ==
    IF \/ intent.kind = "int" \/ condition.kind = "int"
       \/ target_page.kind = "int" \/ target_flow.kind = "int"
       \/ trigger_fulfillment.kind = "str"
    THEN Built("ValueError", EmptyRoute)
    ELSE IF ~(Truthy(intent) \/ Truthy(condition))
    THEN Built("ValueError", EmptyRoute)
    ELSE IF Truthy(target_page) /\ Truthy(target_flow)
    THEN Built("ValueError", EmptyRoute)
    ELSE Built("ok", TransitionRoute(
                         ToField(intent), ToField(condition),
                         trigger_fulfillment.ff,
                         ToField(target_page), ToField(target_flow)))

(* EventHandlerBuilder.create_new_proto_obj: the event is a nonempty       *)
(* string, the other arguments as for a route.                             *)
EventHandlerBuilder_create_new_proto_obj(event, trigger_fulfillment, target_page, target_flow) ==
    IF \/ ~IsNonemptyStr(event)
       \/ target_page.kind = "int" \/ target_flow.kind = "int"
       \/ trigger_fulfillment.kind = "str"
    THEN Built("ValueError", EmptyEventHandler)
    ELSE IF Truthy(target_page) /\ Truthy(target_flow)
    THEN Built("ValueError", EmptyEventHandler)
    ELSE Built("ok", EventHandler(
                         event.s, trigger_fulfillment.ff,
                         ToField(target_page), ToField(target_flow)))

----------------------------------------------------------------------------
(* Mutant: the entry fulfillment is cleared before the new one is built,   *)
(* so a rejected argument leaves the Page without its entry fulfillment.   *)
set_entry_fulfillment_clearing_first(obj, a) ==
    IF ~check_proto_obj_attr_exist(obj) THEN Ret("NoProtoObj", obj)
    ELSE LET fb == FulfillmentBuilder_build(
                       a.message, a.webhook, a.tag, a.parameter_map)
         IN IF fb.status # "ok"
            THEN Ret(fb.status,
                     [obj EXCEPT !.entry_fulfillment = EmptyFulfillment])
            ELSE Ret("ok", [obj EXCEPT !.entry_fulfillment = fb.msg])

(* PageBuilder.set_entry_fulfillment                                       *)
set_entry_fulfillment(obj, a) ==
    IF ~check_proto_obj_attr_exist(obj) THEN Ret("NoProtoObj", obj)
    ELSE LET fb == FulfillmentBuilder_build(
                       a.message, a.webhook, a.tag, a.parameter_map)
         IN IF fb.status # "ok" THEN Ret(fb.status, obj)
            ELSE Ret("ok", [obj EXCEPT !.entry_fulfillment = fb.msg])

(* Mutant: the default value given is kept on a required parameter.        *)
add_parameter_keeping_default(obj, a) ==
    IF ~check_proto_obj_attr_exist(obj) THEN Ret("NoProtoObj", obj)
    ELSE IF ~(Truthy(a.display_name) /\ a.display_name.kind = "str")
    THEN Ret("ValueError", obj)
    ELSE IF ~(Truthy(a.entity_type) /\ a.entity_type.kind = "str")
    THEN Ret("ValueError", obj)
    ELSE IF ~(FfTruthy(a.initial_prompt_fulfillment)
              /\ a.initial_prompt_fulfillment.kind = "Fulfillment")
    THEN Ret("ValueError", obj)
    ELSE IF ~(a.required.kind = "bool" /\ a.is_list.kind = "bool"
              /\ a.redact.kind = "bool")
    THEN Ret("ValueError", obj)
    ELSE IF ObjTruthy(a.reprompt_event_handlers, EmptyEventHandler)
            /\ ~is_type_or_list_of_types(a.reprompt_event_handlers)
    THEN Ret("ValueError", obj)
    ELSE IF ~a.required.b /\ a.default_value.kind # "str"
    THEN Ret("ValueError", obj)
    ELSE LET default_value == ToField(a.default_value)
             the_param == Parameter(
                 a.display_name.s, a.required.b, a.entity_type.s,
                 a.is_list.b, a.redact.b, default_value,
                 FillBehavior(a.initial_prompt_fulfillment.ff,
                              a.reprompt_event_handlers.items))
         IN Ret("ok", [obj EXCEPT !.parameters = Append(@, the_param)])

(* PageBuilder.add_parameter                                               *)
add_parameter(obj, a) ==
    IF ~check_proto_obj_attr_exist(obj) THEN Ret("NoProtoObj", obj)
    ELSE IF ~(Truthy(a.display_name) /\ a.display_name.kind = "str")
    THEN Ret("ValueError", obj)
    ELSE IF ~(Truthy(a.entity_type) /\ a.entity_type.kind = "str")
    THEN Ret("ValueError", obj)
    ELSE IF ~(FfTruthy(a.initial_prompt_fulfillment)
              /\ a.initial_prompt_fulfillment.kind = "Fulfillment")
    THEN Ret("ValueError", obj)
    ELSE IF ~(a.required.kind = "bool" /\ a.is_list.kind = "bool"
              /\ a.redact.kind = "bool")
    THEN Ret("ValueError", obj)
    ELSE IF ObjTruthy(a.reprompt_event_handlers, EmptyEventHandler)
            /\ ~is_type_or_list_of_types(a.reprompt_event_handlers)
    THEN Ret("ValueError", obj)
    ELSE IF ~a.required.b /\ a.default_value.kind # "str"
    THEN Ret("ValueError", obj)
    ELSE LET default_value == IF a.required.b THEN ""
                              ELSE a.default_value.s
             the_param == Parameter(
                 a.display_name.s, a.required.b, a.entity_type.s,
                 a.is_list.b, a.redact.b, default_value,
                 FillBehavior(a.initial_prompt_fulfillment.ff,
                              a.reprompt_event_handlers.items))
         IN Ret("ok", [obj EXCEPT !.parameters = Append(@, the_param)])

(* Mutant: the raw values are looked at first; the objects given are used  *)
(* only when no raw value is given.                                        *)
routes_to_add_raw_values_first(a) ==
    LET raw == \/ a.intent.kind # "None" \/ a.condition.kind # "None"
               \/ a.target_page.kind # "None" \/ a.target_flow.kind # "None"
               \/ a.trigger_fulfillment.kind # "None"
               \/ a.agent_response.kind # "None"
               \/ a.parameter_map.kind # "None"
        trb == TransitionRouteBuilder_create_new_proto_obj(
                   a.intent, a.condition, a.trigger_fulfillment,
                   a.target_page, a.target_flow)
    IN IF a.transition_routes.kind # "None" /\ ~raw
       THEN IF ~is_type_or_list_of_types(a.transition_routes)
            THEN Built("ValueError", <<>>)
            ELSE Built("ok", a.transition_routes.items)
       ELSE IF trb.status # "ok" THEN Built(trb.status, <<>>)
            ELSE Built("ok", <<trb.msg>>)

(* The route list add_transition_route appends: the objects given, or one  *)
(* route built from the raw values.                                        *)
routes_to_add(a) ==
    IF a.transition_routes.kind # "None"
    THEN IF ~is_type_or_list_of_types(a.transition_routes)
         THEN Built("ValueError", <<>>)
         ELSE Built("ok", a.transition_routes.items)
    ELSE LET trb == TransitionRouteBuilder_create_new_proto_obj(
                        a.intent, a.condition, a.trigger_fulfillment,
                        a.target_page, a.target_flow)
             fb == FulfillmentBuilder_build(
                       a.agent_response, PyNone, PyNone, a.parameter_map)
         IN IF trb.status # "ok" THEN Built(trb.status, <<>>)
            ELSE IF a.trigger_fulfillment.kind # "None"
            THEN Built("ok", <<trb.msg>>)
            ELSE IF fb.status # "ok" THEN Built(fb.status, <<>>)
            ELSE Built("ok",
                       <<[trb.msg EXCEPT !.trigger_fulfillment = fb.msg]>>)

(* Mutant: the outcome of building the route is not looked at; whatever    *)
(* was built is appended.                                                  *)
add_transition_route_unchecked(obj, a) ==
    IF ~check_proto_obj_attr_exist(obj) THEN Ret("NoProtoObj", obj)
    ELSE LET trs == routes_to_add(a)
             new == IF trs.status = "ok" THEN trs.msg ELSE <<EmptyRoute>>
         IN Ret("ok", [obj EXCEPT !.transition_routes = @ \o new])

(* PageBuilder.add_transition_route                                        *)
add_transition_route(obj, a) ==
    IF ~check_proto_obj_attr_exist(obj) THEN Ret("NoProtoObj", obj)
    ELSE LET trs == routes_to_add(a)
         IN IF trs.status # "ok" THEN Ret(trs.status, obj)
            ELSE Ret("ok", [obj EXCEPT !.transition_routes = @ \o trs.msg])

(* Mutant: the routes are put in front of the routes held.                 *)
TRG_add_transition_route_in_front(obj, a) ==
    IF ~check_proto_obj_attr_exist(obj) THEN Ret("NoProtoObj", obj)
    ELSE LET trs == routes_to_add(a)
         IN IF trs.status # "ok" THEN Ret(trs.status, obj)
            ELSE Ret("ok", [obj EXCEPT !.transition_routes = trs.msg \o @])

(* TransitionRouteGroupBuilder.add_transition_route                        *)
TRG_add_transition_route(obj, a) ==
    IF ~check_proto_obj_attr_exist(obj) THEN Ret("NoProtoObj", obj)
    ELSE LET trs == routes_to_add(a)
         IN IF trs.status # "ok" THEN Ret(trs.status, obj)
            ELSE Ret("ok", [obj EXCEPT !.transition_routes = @ \o trs.msg])

(* PageBuilder.add_event_handler                                           *)
add_event_handler(obj, a) ==
    IF ~check_proto_obj_attr_exist(obj) THEN Ret("NoProtoObj", obj)
    ELSE IF a.event_handlers.kind # "None"
    THEN IF ~is_type_or_list_of_types(a.event_handlers)
         THEN Ret("ValueError", obj)
         ELSE Ret("ok", [obj EXCEPT
                           !.event_handlers = @ \o a.event_handlers.items])
    ELSE LET ehb == EventHandlerBuilder_create_new_proto_obj(
                        a.event, a.trigger_fulfillment,
                        a.target_page, a.target_flow)
             fb == FulfillmentBuilder_build(
                       a.agent_response, PyNone, PyNone, a.parameter_map)
         IN IF ehb.status # "ok" THEN Ret(ehb.status, obj)
            ELSE IF a.trigger_fulfillment.kind # "None"
            THEN Ret("ok", [obj EXCEPT !.event_handlers = Append(@, ehb.msg)])
            ELSE IF fb.status # "ok" THEN Ret(fb.status, obj)
            ELSE Ret("ok", [obj EXCEPT !.event_handlers = Append(
                       @, [ehb.msg EXCEPT !.trigger_fulfillment = fb.msg])])

(* Mutant: the method does not check that the builder holds an object.     *)
add_transition_route_group_without_check(obj, a) ==
    IF ~is_type_or_list_of_types(a.transition_route_groups)
    THEN Ret("ValueError", obj)
    ELSE Ret("ok", [obj EXCEPT !.transition_route_groups =
                                   @ \o a.transition_route_groups.items])

(* PageBuilder.add_transition_route_group                                  *)
add_transition_route_group(obj, a) ==
    IF ~check_proto_obj_attr_exist(obj) THEN Ret("NoProtoObj", obj)
    ELSE IF ~is_type_or_list_of_types(a.transition_route_groups)
    THEN Ret("ValueError", obj)
    ELSE Ret("ok", [obj EXCEPT !.transition_route_groups =
                                   @ \o a.transition_route_groups.items])

----------------------------------------------------------------------------
(* BuildersCommon._match_transition_route: (status, whether the route      *)
(* matches).  At least one criterion must be given; the route matches when *)
(* it equals the target route, has the intent and has the condition, as    *)
(* far as each is given.                                                   *)
match_transition_route(transition_route, target_route, intent, condition) ==
    IF \/ target_route.kind \in {"other", "mixed", "list"}
       \/ intent.kind = "int" \/ condition.kind = "int"
    THEN [status |-> "ValueError", match |-> FALSE]
    ELSE IF /\ target_route.kind = "None"
            /\ intent.kind = "None"
            /\ condition.kind = "None"
    THEN [status |-> "ValueError", match |-> FALSE]
    ELSE [status |-> "ok",
          match |->
            /\ target_route.kind = "one"
                 => transition_route = target_route.items[1]
            /\ intent.kind = "str" => transition_route.intent = intent.s
            /\ condition.kind = "str"
                 => transition_route.condition = condition.s]

(* The loop of remove_transition_route: every route is matched against the *)
(* criteria, the first failing match ends the call, and the routes that do *)
(* not match are kept.                                                     *)
unmatched_routes(routes, a) ==
    LET m == [i \in 1..Len(routes) |->
                 match_transition_route(
                     routes[i], a.transition_route, a.intent, a.condition)]
    IN IF \E i \in 1..Len(routes) : m[i].status # "ok"
       THEN Built("ValueError", routes)
       ELSE Built("ok", SelectSeqBy(
                routes, {i \in 1..Len(routes) : ~m[i].match}))

(* Mutant: the test of the loop is inverted, the matching routes are kept  *)
(* and the others dropped.                                                 *)
remove_transition_route_inverted(obj, a) ==
    IF ~check_proto_obj_attr_exist(obj) THEN Ret("NoProtoObj", obj)
    ELSE LET routes == obj.transition_routes
             m == [i \in 1..Len(routes) |->
                      match_transition_route(
                          routes[i], a.transition_route, a.intent,
                          a.condition)]
         IN IF \E i \in 1..Len(routes) : m[i].status # "ok"
            THEN Ret("ValueError", obj)
            ELSE Ret("ok", [obj EXCEPT !.transition_routes = SelectSeqBy(
                       routes, {i \in 1..Len(routes) : m[i].match})])

(* PageBuilder.remove_transition_route                                     *)
remove_transition_route(obj, a) ==
    IF ~check_proto_obj_attr_exist(obj) THEN Ret("NoProtoObj", obj)
    ELSE LET new_routes == unmatched_routes(obj.transition_routes, a)
         IN IF new_routes.status # "ok" THEN Ret(new_routes.status, obj)
            ELSE Ret("ok", [obj EXCEPT !.transition_routes = new_routes.msg])

(* TransitionRouteGroupBuilder.remove_transition_route                     *)
TRG_remove_transition_route(obj, a) ==
    IF ~check_proto_obj_attr_exist(obj) THEN Ret("NoProtoObj", obj)
    ELSE LET new_routes == unmatched_routes(obj.transition_routes, a)
         IN IF new_routes.status # "ok" THEN Ret(new_routes.status, obj)
            ELSE Ret("ok", [obj EXCEPT !.transition_routes = new_routes.msg])

(* Mutant: only the first parameter with one of the names is removed.      *)
remove_parameter_first_only(obj, a) ==
    IF ~check_proto_obj_attr_exist(obj) THEN Ret("NoProtoObj", obj)
    ELSE IF ~ObjTruthy(a.display_name, "") THEN Ret("ValueError", obj)
    ELSE IF ~is_type_or_list_of_types(a.display_name)
    THEN Ret("ValueError", obj)
    ELSE LET ps == obj.parameters
             hit == {i \in 1..Len(ps) :
                       ps[i].display_name \in Range(a.display_name.items)}
             first == {i \in hit : \A j \in hit : i <= j}
         IN Ret("ok", [obj EXCEPT !.parameters =
                                    SelectSeqBy(ps, (1..Len(ps)) \ first)])

(* PageBuilder.remove_parameter                                            *)
remove_parameter(obj, a) ==
    IF ~check_proto_obj_attr_exist(obj) THEN Ret("NoProtoObj", obj)
    ELSE IF ~ObjTruthy(a.display_name, "") THEN Ret("ValueError", obj)
    ELSE IF ~is_type_or_list_of_types(a.display_name)
    THEN Ret("ValueError", obj)
    ELSE LET ps == obj.parameters
             new_params == SelectSeqBy(ps,
                 {i \in 1..Len(ps) :
                     ps[i].display_name \notin Range(a.display_name.items)})
         IN Ret("ok", [obj EXCEPT !.parameters = new_params])

(* BuildersCommon._find_unmatched_event_handlers: the handlers of the      *)
(* object that equal none of the handlers given.                           *)
find_unmatched_event_handlers(obj, event_handlers) ==
    IF ~is_type_or_list_of_types(event_handlers)
    THEN Built("ValueError", obj.event_handlers)
    ELSE LET ehs == obj.event_handlers
         IN Built("ok", SelectSeqBy(ehs,
                {i \in 1..Len(ehs) : ehs[i] \notin Range(event_handlers.items)}))

(* BuildersCommon._find_unmatched_event_handlers_by_name: the handlers of  *)
(* the object whose event is none of the names given.                      *)
find_unmatched_event_handlers_by_name(obj, event_names) ==
    IF ~is_type_or_list_of_types(event_names)
    THEN Built("ValueError", obj.event_handlers)
    ELSE LET ehs == obj.event_handlers
         IN Built("ok", SelectSeqBy(ehs,
                {i \in 1..Len(ehs) :
                    ehs[i].event \notin Range(event_names.items)}))

(* PageBuilder.remove_event_handler                                        *)
remove_event_handler(obj, a) ==
    IF ~check_proto_obj_attr_exist(obj) THEN Ret("NoProtoObj", obj)
    ELSE IF /\ ObjTruthy(a.event_handlers, EmptyEventHandler)
            /\ ObjTruthy(a.event_names, "")
    THEN Ret("UserWarning", obj)
    ELSE IF ObjTruthy(a.event_handlers, EmptyEventHandler)
    THEN LET new_ehs == find_unmatched_event_handlers(obj, a.event_handlers)
         IN IF new_ehs.status # "ok" THEN Ret(new_ehs.status, obj)
            ELSE Ret("ok", [obj EXCEPT !.event_handlers = new_ehs.msg])
    ELSE IF ObjTruthy(a.event_names, "")
    THEN LET new_ehs == find_unmatched_event_handlers_by_name(
                            obj, a.event_names)
         IN IF new_ehs.status # "ok" THEN Ret(new_ehs.status, obj)
            ELSE Ret("ok", [obj EXCEPT !.event_handlers = new_ehs.msg])
    ELSE Ret("UserWarning", obj)

(* PageBuilder.remove_transition_route_group                               *)
remove_transition_route_group(obj, a) ==
    IF ~check_proto_obj_attr_exist(obj) THEN Ret("NoProtoObj", obj)
    ELSE IF ~is_type_or_list_of_types(a.transition_route_groups)
    THEN Ret("ValueError", obj)
    ELSE LET gs == obj.transition_route_groups
             new_trgs == SelectSeqBy(gs,
                 {i \in 1..Len(gs) :
                     gs[i] \notin Range(a.transition_route_groups.items)})
         IN Ret("ok", [obj EXCEPT !.transition_route_groups = new_trgs])

(* The modes show_page_info accepts.                                       *)
PageInfoModes ==
    {"basic", "parameters", "routes", "transition routes", "route groups",
     "transition route groups", "events", "event handlers", "whole"}

(* Mutant: showing the whole Page takes the entry fulfillment out of it.   *)
show_page_info_taking_fulfillment(obj, a) ==
    IF ~check_proto_obj_attr_exist(obj) THEN Ret("NoProtoObj", obj)
    ELSE IF a.mode \notin PageInfoModes THEN Ret("ValueError", obj)
    ELSE IF a.mode = "whole"
    THEN Ret("ok", [obj EXCEPT !.entry_fulfillment = EmptyFulfillment])
    ELSE Ret("ok", obj)

(* PageBuilder.show_page_info                                              *)
show_page_info(obj, a) ==
    IF ~check_proto_obj_attr_exist(obj) THEN Ret("NoProtoObj", obj)
    ELSE IF a.mode \notin PageInfoModes THEN Ret("ValueError", obj)
    ELSE Ret("ok", obj)

(* PageBuilder.show_stats                                                  *)
show_stats(obj) ==
    IF ~check_proto_obj_attr_exist(obj) THEN Ret("NoProtoObj", obj)
    ELSE Ret("ok", obj)

(* TransitionRouteGroupBuilder.show_transition_route_group                 *)
show_transition_route_group(obj) ==
    IF ~check_proto_obj_attr_exist(obj) THEN Ret("NoProtoObj", obj)
    ELSE Ret("ok", obj)

(* _Dataframe.proto_to_dataframe of both builders: the mode is checked and *)
(* the table is built from what is read of obj.                            *)
proto_to_dataframe(obj, a) ==
    IF a.mode \notin {"basic", "advanced"} THEN Ret("ValueError", obj)
    ELSE Ret("ok", obj)

(* BuildersCommon.to_dataframe: the table of the held object.              *)
to_dataframe(obj, a) ==
    IF ~check_proto_obj_attr_exist(obj) THEN Ret("NoProtoObj", obj)
    ELSE proto_to_dataframe(obj, a)

----------------------------------------------------------------------------
(* PageStats: the counters of a PageStats instance as its constructor      *)
(* leaves them.  parameters_ratio is the quotient num / den.               *)
PageStats ==
    [has_entry_fulfill |-> FALSE,
     parameters_count |-> 0,
     parameters_with_event_handler_count |-> 0,
     parameters_with_webhook_fulfill_count |-> 0,
     parameters_ratio |-> [num |-> 0, den |-> 1],
     transition_routes_count |-> 0,
     routes_with_fulfill_count |-> 0,
     routes_with_webhook_fulfill_count |-> 0,
     intent_routes_count |-> 0,
     cond_routes_count |-> 0,
     intent_and_cond_routes_count |-> 0,
     event_handlers_count |-> 0,
     events_with_fulfill_count |-> 0,
     events_with_webhook_fulfill_count |-> 0,
     transition_route_groups_count |-> 0]

(* FulfillmentBuilder.has_webhook: the fulfillment names a webhook.        *)
has_webhook(ff) == ff.webhook # ""

(* The positions of a sequence, for counting those that pass a test.       *)
Indices(seq) == 1..Len(seq)

(* PageStats.calc_parameter_stats: the count is set, the two sub-counts    *)
(* are added to, and the ratio is set when there is a parameter.           *)
calc_parameter_stats(st, page) ==
    LET HasWebhook(param) ==
            has_webhook(param.fill_behavior.initial_prompt_fulfillment)
        HasHandlers(param) ==
            param.fill_behavior.reprompt_event_handlers # <<>>
        count == Len(page.parameters)
        with_eh == st.parameters_with_event_handler_count
                   + Cardinality({i \in Indices(page.parameters) : HasHandlers(page.parameters[i])})
    IN [st EXCEPT
          !.parameters_count = count,
          !.parameters_with_webhook_fulfill_count =
              @ + Cardinality({i \in Indices(page.parameters) : HasWebhook(page.parameters[i])}),
          !.parameters_with_event_handler_count = with_eh,
          !.parameters_ratio =
              IF count # 0 THEN [num |-> with_eh, den |-> count] ELSE @]

(* PageStats.calc_transition_route_stats                                   *)
calc_transition_route_stats(st, page) ==
    LET routes == page.transition_routes
        HasFulfill(tr) == tr.trigger_fulfillment # EmptyFulfillment
        HasWebhookFulfill(tr) ==
            HasFulfill(tr) /\ has_webhook(tr.trigger_fulfillment)
        Both(tr) == tr.intent # "" /\ tr.condition # ""
        IntentOnly(tr) == tr.intent # "" /\ tr.condition = ""
        CondOnly(tr) == tr.intent = "" /\ tr.condition # ""
    IN [st EXCEPT
          !.transition_routes_count = Len(routes),
          !.routes_with_fulfill_count = @ + Cardinality({i \in Indices(routes) : HasFulfill(routes[i])}),
          !.routes_with_webhook_fulfill_count =
              @ + Cardinality({i \in Indices(routes) : HasWebhookFulfill(routes[i])}),
          !.intent_and_cond_routes_count = @ + Cardinality({i \in Indices(routes) : Both(routes[i])}),
          !.intent_routes_count = @ + Cardinality({i \in Indices(routes) : IntentOnly(routes[i])}),
          !.cond_routes_count = @ + Cardinality({i \in Indices(routes) : CondOnly(routes[i])})]

(* PageStats.calc_event_handler_stats                                      *)
calc_event_handler_stats(st, page) ==
    LET HasWebhook(eh) == has_webhook(eh.trigger_fulfillment)
        HasFulfill(eh) == eh.trigger_fulfillment # EmptyFulfillment
    IN [st EXCEPT
          !.event_handlers_count = Len(page.event_handlers),
          !.events_with_webhook_fulfill_count =
              @ + Cardinality({i \in Indices(page.event_handlers) : HasWebhook(page.event_handlers[i])}),
          !.events_with_fulfill_count =
              @ + Cardinality({i \in Indices(page.event_handlers) : HasFulfill(page.event_handlers[i])})]

(* PageStats.create_entry_fulfillment_str sets has_entry_fulfill.          *)
create_entry_fulfillment_str(st, page) ==
    [st EXCEPT !.has_entry_fulfill =
                   page.entry_fulfillment # EmptyFulfillment]

(* PageStats.create_transition_route_group_str sets the group count.       *)
create_transition_route_group_str(st, page) ==
    [st EXCEPT !.transition_route_groups_count =
                   Len(page.transition_route_groups)]

(* PageStats.generate_stats: the three calc methods, then the strings; the *)
(* other create_*_str methods only read the counters.                      *)
generate_stats(st, page) ==
    create_transition_route_group_str(
        create_entry_fulfillment_str(
            calc_event_handler_stats(
                calc_transition_route_stats(
                    calc_parameter_stats(st, page), page), page), page), page)

----------------------------------------------------------------------------
(* EntityTypes (core/entity_types.py).  The instance keeps entity_id and   *)
(* agent_id; every forwarder builds a client and makes remote calls.       *)
EntityType(name, display_name, kind) ==
    [name |-> name, display_name |-> display_name, kind |-> kind]

EmptyEntityType == EntityType("", "", "")

EntityTypeFields == {"name", "display_name", "kind"}

(* The obj argument: None or an EntityType.                                *)
EtNone == [kind |-> "None", et |-> EmptyEntityType]

EtObj(e) == [kind |-> "EntityType", et |-> e]

(* `if obj`: None and a message with no field set are falsy.               *)
EtTruthy(o) == o.kind = "EntityType" /\ o.et # EmptyEntityType

(* An EntityTypes instance without ids, and no forwarder called yet.       *)
NoIds == [entity_id |-> PyNone, agent_id |-> PyNone]

(* One remote request: the operation, the resource it names (name or      *)
(* parent), what it carries and how the remote service answered it.        *)
Request(op, target, entity_type, update_mask, language_code, page, outcome) ==
    [op |-> op, target |-> target, entity_type |-> entity_type,
     update_mask |-> update_mask, language_code |-> language_code,
     page |-> page, outcome |-> outcome]

(* The outcome of a forwarder: the remote requests it issued in order, how *)
(* it ended ("ok", "RemoteError", or a local error), the error raised and  *)
(* the list or entity type returned.                                       *)
Outcome(requests, status, error, response) ==
    [requests |-> requests, status |-> status, error |-> error,
     response |-> response]

NoRpc == [op |-> "none", args |-> <<>>, remote |-> <<>>,
          out |-> Outcome(<<>>, "ok", "", <<>>),
          obj_after |-> EmptyEntityType]

(* ScrapiBase._set_region: the client options are derived from the         *)
(* resource id, which fails when there is no id.                           *)
set_region(resource_id) == IsNonemptyStr(resource_id)

(* The entity type the remote service holds under an id.                   *)
Stored(id) == EntityType(id, "stored", "KIND_MAP")

(* The answer to one remote call: "ok", or the error the transport raises. *)
Failed(answer) == answer # "ok"

RECURSIVE Flatten(_)
(* `for page in response.pages: for entity in page.entity_types:           *)
(* entities.append(entity)`                                                *)
Flatten(pages) ==
    IF pages = <<>> THEN <<>>
    ELSE Flatten(SubSeq(pages, 1, Len(pages) - 1)) \o pages[Len(pages)]

(* Mutant: only the first response page is read.                           *)
list_entity_types_first_page_only(ids, a, remote) ==
    LET agent_id == IF ~Truthy(a.agent_id) THEN ids.agent_id ELSE a.agent_id
        request == Request("list", agent_id.s, EmptyEntityType, {}, "", 1,
                           remote.answers[1])
    IN IF ~set_region(agent_id)
       THEN Outcome(<<>>, "LocalError", "set_region", <<>>)
       ELSE IF Failed(remote.answers[1])
       THEN Outcome(<<request>>, "RemoteError", remote.answers[1], <<>>)
       ELSE Outcome(<<request>>, "ok", "", remote.pages[1])

(* EntityTypes.list_entity_types.  remote.pages are the response pages the *)
(* service has for the agent; remote.answers[k] is how the request for     *)
(* page k is answered.  The pages are fetched one request at a time.       *)
list_entity_types(ids, a, remote) ==
    LET agent_id == IF ~Truthy(a.agent_id) THEN ids.agent_id ELSE a.agent_id
        n == Len(remote.pages)
        bad == {k \in 1..n : Failed(remote.answers[k])}
        upto == IF bad = {} THEN n
                ELSE CHOOSE k \in bad : \A j \in bad : k <= j
        requests == [k \in 1..upto |->
                        Request("list", agent_id.s, EmptyEntityType, {}, "",
                                k, remote.answers[k])]
    IN IF ~set_region(agent_id)
       THEN Outcome(<<>>, "LocalError", "set_region", <<>>)
       ELSE IF bad # {}
       THEN Outcome(requests, "RemoteError", remote.answers[upto], <<>>)
       ELSE Outcome(requests, "ok", "", Flatten(remote.pages))

(* EntityTypes.get_entity_type                                             *)
get_entity_type(ids, a, remote) ==
    LET entity_id == IF ~Truthy(a.entity_id) THEN ids.entity_id
                     ELSE a.entity_id
        request == Request("get", entity_id.s, EmptyEntityType, {}, "", 0,
                           remote.get)
    IN IF ~set_region(entity_id)
       THEN Outcome(<<>>, "LocalError", "set_region", EmptyEntityType)
       ELSE IF Failed(remote.get)
       THEN Outcome(<<request>>, "RemoteError", remote.get, EmptyEntityType)
       ELSE Outcome(<<request>>, "ok", "", Stored(entity_id.s))

(* `for key, value in kwargs.items(): setattr(entity_type, key, value)`:   *)
(* every key has to be a field of the message.                             *)
setattrs(entity_type, kwargs) ==
    [f \in EntityTypeFields |->
        IF f \in DOMAIN kwargs THEN kwargs[f] ELSE entity_type[f]]

(* The keywords the setattr loop has assigned when it ends: all of them,   *)
(* or those before the first one that is not a field of the message.       *)
(* order is the order in which the caller writes keyword arguments, which  *)
(* is the order kwargs.items() yields them in.                             *)
assigned_keys(kwargs) ==
    LET order == <<"display_name", "kind", "name", "colour">>
        given == {i \in 1..Len(order) : order[i] \in DOMAIN kwargs}
        bad == {i \in given : order[i] \notin EntityTypeFields}
    IN {order[i] : i \in {k \in given : \A j \in bad : k < j}}

(* The object the caller passed as obj, as the caller finds it after       *)
(* create_entity_type or update_entity_type: `entity_type = obj` binds the *)
(* caller's object, so `entity_type.name = ...` and every setattr that     *)
(* went through are made on it, whether or not the call fails later.       *)
caller_object_after(op, a) ==
    IF "obj" \notin DOMAIN a THEN EmptyEntityType
    ELSE IF op \notin {"create_entity_type", "update_entity_type"}
            \/ ~EtTruthy(a.obj)
    THEN a.obj.et
    ELSE LET name == IF op = "create_entity_type" THEN ""
                     ELSE ToField(a.entity_type_id)
             keys == assigned_keys(a.kwargs)
         IN setattrs([a.obj.et EXCEPT !.name = name],
                     [k \in keys |-> a.kwargs[k]])

(* Mutant: the name of the object given is left as it is.                 *)
create_entity_type_keeping_object_name(ids, a, remote) ==
    LET agent_id == IF ~Truthy(a.agent_id) THEN ids.agent_id ELSE a.agent_id
        given == IF EtTruthy(a.obj) THEN a.obj.et ELSE EmptyEntityType
        entity_type == setattrs(given, a.kwargs)
        language_code == IF Truthy(a.language_code) THEN a.language_code.s
                         ELSE ""
        request == Request("create", agent_id.s, entity_type, {},
                           language_code, 0, remote.create)
    IN IF ~(DOMAIN a.kwargs \subseteq EntityTypeFields)
       THEN Outcome(<<>>, "LocalError", "setattr", EmptyEntityType)
       ELSE IF ~set_region(agent_id)
       THEN Outcome(<<>>, "LocalError", "set_region", EmptyEntityType)
       ELSE IF Failed(remote.create)
       THEN Outcome(<<request>>, "RemoteError", remote.create,
                    EmptyEntityType)
       ELSE Outcome(<<request>>, "ok", "",
                    [entity_type EXCEPT !.name = "et-new"])

(* EntityTypes.create_entity_type                                          *)
create_entity_type(ids, a, remote) ==
    LET agent_id == IF ~Truthy(a.agent_id) THEN ids.agent_id ELSE a.agent_id
        given == IF EtTruthy(a.obj) THEN [a.obj.et EXCEPT !.name = ""]
                 ELSE EmptyEntityType
        entity_type == setattrs(given, a.kwargs)
        language_code == IF Truthy(a.language_code) THEN a.language_code.s
                         ELSE ""
        request == Request("create", agent_id.s, entity_type, {},
                           language_code, 0, remote.create)
    IN IF ~(DOMAIN a.kwargs \subseteq EntityTypeFields)
       THEN Outcome(<<>>, "LocalError", "setattr", EmptyEntityType)
       ELSE IF ~set_region(agent_id)
       THEN Outcome(<<>>, "LocalError", "set_region", EmptyEntityType)
       ELSE IF Failed(remote.create)
       THEN Outcome(<<request>>, "RemoteError", remote.create,
                    EmptyEntityType)
       ELSE Outcome(<<request>>, "ok", "",
                    [entity_type EXCEPT !.name = "et-new"])

(* Mutant: a failed get is tried once more before the error is raised.     *)
update_entity_type_retrying_get(ids, a, remote) ==
    LET with_obj == EtTruthy(a.obj)
        entity_type_id ==
            IF ~with_obj /\ ~Truthy(a.entity_type_id) THEN ids.entity_id
            ELSE a.entity_type_id
        fetch == get_entity_type(ids, [entity_id |-> entity_type_id], remote)
        start == IF with_obj
                 THEN [a.obj.et EXCEPT !.name = ToField(entity_type_id)]
                 ELSE fetch.response
        fetched == IF with_obj THEN <<>> ELSE fetch.requests
        entity_type == setattrs(start, a.kwargs)
        language_code == IF Truthy(a.language_code) THEN a.language_code.s
                         ELSE ""
        request == Request("update", entity_type.name, entity_type,
                           DOMAIN a.kwargs, language_code, 0, remote.update)
    IN IF ~with_obj /\ fetch.status = "RemoteError"
       THEN [fetch EXCEPT !.requests = @ \o @]
       ELSE IF ~with_obj /\ fetch.status # "ok" THEN fetch
       ELSE IF ~(DOMAIN a.kwargs \subseteq EntityTypeFields)
       THEN Outcome(fetched, "LocalError", "setattr", EmptyEntityType)
       ELSE IF ~set_region(entity_type_id)
       THEN Outcome(fetched, "LocalError", "set_region", EmptyEntityType)
       ELSE IF Failed(remote.update)
       THEN Outcome(Append(fetched, request), "RemoteError", remote.update,
                    EmptyEntityType)
       ELSE Outcome(Append(fetched, request), "ok", "", entity_type)

(* Mutant: the field mask names every field of the entity type.            *)
update_entity_type_masking_all_fields(ids, a, remote) ==
    LET with_obj == EtTruthy(a.obj)
        entity_type_id ==
            IF ~with_obj /\ ~Truthy(a.entity_type_id) THEN ids.entity_id
            ELSE a.entity_type_id
        fetch == get_entity_type(ids, [entity_id |-> entity_type_id], remote)
        start == IF with_obj
                 THEN [a.obj.et EXCEPT !.name = ToField(entity_type_id)]
                 ELSE fetch.response
        fetched == IF with_obj THEN <<>> ELSE fetch.requests
        entity_type == setattrs(start, a.kwargs)
        language_code == IF Truthy(a.language_code) THEN a.language_code.s
                         ELSE ""
        request == Request("update", entity_type.name, entity_type,
                           EntityTypeFields, language_code, 0, remote.update)
    IN IF ~with_obj /\ fetch.status # "ok" THEN fetch
       ELSE IF ~(DOMAIN a.kwargs \subseteq EntityTypeFields)
       THEN Outcome(fetched, "LocalError", "setattr", EmptyEntityType)
       ELSE IF ~set_region(entity_type_id)
       THEN Outcome(fetched, "LocalError", "set_region", EmptyEntityType)
       ELSE IF Failed(remote.update)
       THEN Outcome(Append(fetched, request), "RemoteError", remote.update,
                    EmptyEntityType)
       ELSE Outcome(Append(fetched, request), "ok", "", entity_type)

(* Mutant: the name of the object given is left as it is.                 *)
update_entity_type_keeping_object_name(ids, a, remote) ==
    LET with_obj == EtTruthy(a.obj)
        entity_type_id ==
            IF ~with_obj /\ ~Truthy(a.entity_type_id) THEN ids.entity_id
            ELSE a.entity_type_id
        fetch == get_entity_type(ids, [entity_id |-> entity_type_id], remote)
        start == IF with_obj THEN a.obj.et ELSE fetch.response
        fetched == IF with_obj THEN <<>> ELSE fetch.requests
        entity_type == setattrs(start, a.kwargs)
        language_code == IF Truthy(a.language_code) THEN a.language_code.s
                         ELSE ""
        request == Request("update", entity_type.name, entity_type,
                           DOMAIN a.kwargs, language_code, 0, remote.update)
    IN IF ~with_obj /\ fetch.status # "ok" THEN fetch
       ELSE IF ~(DOMAIN a.kwargs \subseteq EntityTypeFields)
       THEN Outcome(fetched, "LocalError", "setattr", EmptyEntityType)
       ELSE IF ~set_region(entity_type_id)
       THEN Outcome(fetched, "LocalError", "set_region", EmptyEntityType)
       ELSE IF Failed(remote.update)
       THEN Outcome(Append(fetched, request), "RemoteError", remote.update,
                    EmptyEntityType)
       ELSE Outcome(Append(fetched, request), "ok", "", entity_type)

(* Mutant: the update is sent although the remote get failed.             *)
update_entity_type_ignoring_failed_get(ids, a, remote) ==
    LET with_obj == EtTruthy(a.obj)
        entity_type_id ==
            IF ~with_obj /\ ~Truthy(a.entity_type_id) THEN ids.entity_id
            ELSE a.entity_type_id
        fetch == get_entity_type(ids, [entity_id |-> entity_type_id], remote)
        start == IF with_obj
                 THEN [a.obj.et EXCEPT !.name = ToField(entity_type_id)]
                 ELSE fetch.response
        fetched == IF with_obj THEN <<>> ELSE fetch.requests
        entity_type == setattrs(start, a.kwargs)
        language_code == IF Truthy(a.language_code) THEN a.language_code.s
                         ELSE ""
        request == Request("update", entity_type.name, entity_type,
                           DOMAIN a.kwargs, language_code, 0, remote.update)
    IN IF ~with_obj /\ fetch.status = "LocalError" THEN fetch
       ELSE IF ~(DOMAIN a.kwargs \subseteq EntityTypeFields)
       THEN Outcome(fetched, "LocalError", "setattr", EmptyEntityType)
       ELSE IF ~set_region(entity_type_id)
       THEN Outcome(fetched, "LocalError", "set_region", EmptyEntityType)
       ELSE IF Failed(remote.update)
       THEN Outcome(Append(fetched, request), "RemoteError", remote.update,
                    EmptyEntityType)
       ELSE Outcome(Append(fetched, request), "ok", "", entity_type)

(* EntityTypes.update_entity_type                                          *)
update_entity_type(ids, a, remote) ==
    LET with_obj == EtTruthy(a.obj)
        entity_type_id ==
            IF ~with_obj /\ ~Truthy(a.entity_type_id) THEN ids.entity_id
            ELSE a.entity_type_id
        fetch == get_entity_type(ids, [entity_id |-> entity_type_id], remote)
        start == IF with_obj
                 THEN [a.obj.et EXCEPT !.name = ToField(entity_type_id)]
                 ELSE fetch.response
        fetched == IF with_obj THEN <<>> ELSE fetch.requests
        entity_type == setattrs(start, a.kwargs)
        language_code == IF Truthy(a.language_code) THEN a.language_code.s
                         ELSE ""
        request == Request("update", entity_type.name, entity_type,
                           DOMAIN a.kwargs, language_code, 0, remote.update)
    IN IF ~with_obj /\ fetch.status # "ok" THEN fetch
       ELSE IF ~(DOMAIN a.kwargs \subseteq EntityTypeFields)
       THEN Outcome(fetched, "LocalError", "setattr", EmptyEntityType)
       ELSE IF ~set_region(entity_type_id)
       THEN Outcome(fetched, "LocalError", "set_region", EmptyEntityType)
       ELSE IF Failed(remote.update)
       THEN Outcome(Append(fetched, request), "RemoteError", remote.update,
                    EmptyEntityType)
       ELSE Outcome(Append(fetched, request), "ok", "", entity_type)

(* EntityTypes.delete_entity_type: with an object the id is taken from it  *)
(* and the method returns; the remote delete is in the other branch.       *)
delete_entity_type(ids, a, remote) ==
    LET entity_id == IF ~Truthy(a.entity_id) THEN ids.entity_id
                     ELSE a.entity_id
        request == Request("delete", entity_id.s, EmptyEntityType, {}, "", 0,
                           remote.delete)
    IN IF EtTruthy(a.obj) THEN Outcome(<<>>, "ok", "", <<>>)
       ELSE IF ~set_region(entity_id)
       THEN Outcome(<<>>, "LocalError", "set_region", <<>>)
       ELSE IF Failed(remote.delete)
       THEN Outcome(<<request>>, "RemoteError", remote.delete, <<>>)
       ELSE Outcome(<<request>>, "ok", "", <<>>)

(* An entity type listed with its entities (each a value with its          *)
(* synonyms) and excluded phrases.                                         *)
EntityTypeWith(name, display_name, entities, excluded_phrases) ==
    [name |-> name, display_name |-> display_name, kind |-> "KIND_MAP",
     entities |-> entities, excluded_phrases |-> excluded_phrases]

(* A pandas DataFrame: its columns and its rows in order; pd.DataFrame()   *)
(* has no columns.  A dict is a row that is not a DataFrame, of kind       *)
(* "dict".                                                                 *)
DataFrame(columns, rows) ==
    [kind |-> "DataFrame", columns |-> columns, rows |-> rows]

EmptyDataFrame == DataFrame({}, <<>>)

(* What a dataframe computation yields: "ok" with the frame, or the error  *)
(* raised.                                                                 *)
DfResult(status, df) == [status |-> status, df |-> df]

(* pd.concat(objs): every object has to be a Series or a DataFrame; the    *)
(* rows are put one frame after the other.                                 *)
pd_concat(objs) ==
    IF \E i \in 1..Len(objs) : objs[i].kind # "DataFrame"
    THEN DfResult("TypeError", EmptyDataFrame)
    ELSE DfResult("ok",
             DataFrame(UNION {objs[i].columns : i \in 1..Len(objs)},
                       Flatten([i \in 1..Len(objs) |-> objs[i].rows])))

RECURSIVE concat_each(_, _)
(* `for ...: main_df = pd.concat([main_df, x])`, ended by the first error. *)
concat_each(main_df, objs) ==
    IF objs = <<>> THEN DfResult("ok", main_df)
    ELSE LET r == pd_concat(<<main_df, Head(objs)>>)
         IN IF r.status # "ok" THEN r ELSE concat_each(r.df, Tail(objs))

(* The order of Python strings on the values used.                         *)
str_lt(x, y) ==
    LET order == <<"", "a", "b", "s1", "s2", "v1", "v2", "zz">>
    IN \E i, j \in 1..Len(order) : order[i] = x /\ order[j] = y /\ i < j

RECURSIVE row_lt(_, _, _)
(* Row r comes before row s in the order by the columns by.                *)
row_lt(r, s, by) ==
    /\ by # <<>>
    /\ \/ str_lt(r[Head(by)], s[Head(by)])
       \/ r[Head(by)] = s[Head(by)] /\ row_lt(r, s, Tail(by))

RECURSIVE sorted_rows(_, _)
(* The rows in ascending order by the columns by, equal rows in the order  *)
(* they had.                                                               *)
sorted_rows(rows, by) ==
    IF rows = <<>> THEN <<>>
    ELSE LET n == Len(rows)
             front == sorted_rows(SubSeq(rows, 1, n - 1), by)
             k == Cardinality({i \in 1..(n - 1) :
                                  ~row_lt(rows[n], front[i], by)})
         IN SubSeq(front, 1, k) \o <<rows[n]>> \o SubSeq(front, k + 1, n - 1)

(* DataFrame.sort_values(by): every name in by has to be a column.         *)
sort_values(df, by) ==
    IF ~(Range(by) \subseteq df.columns)
    THEN DfResult("KeyError", EmptyDataFrame)
    ELSE DfResult("ok", DataFrame(df.columns, sorted_rows(df.rows, by)))

(* DataFrame.astype(type_map): every key has to be a column.               *)
astype(df, keys) ==
    IF ~(keys \subseteq df.columns)
    THEN DfResult("KeyError", EmptyDataFrame)
    ELSE DfResult("ok", df)

(* The result of entity_type_proto_to_dataframe and entity_types_to_df:    *)
(* the entity_types frame (the frame returned in basic mode) and the       *)
(* excluded_phrases frame (advanced mode only).                            *)
Frames(status, entity_types, excluded_phrases) ==
    [status |-> status, entity_types |-> entity_types,
     excluded_phrases |-> excluded_phrases]

(* EntityTypes.entity_type_proto_to_dataframe: one dict per synonym of     *)
(* each entity (and, in advanced mode, one per excluded phrase) is handed  *)
(* to pd.concat next to the frame built so far.                            *)
entity_type_proto_to_dataframe(obj, mode) ==
    LET dicts == Flatten(
            [i \in 1..Len(obj.entities) |->
                [j \in 1..Len(obj.entities[i].synonyms) |->
                    [kind |-> "dict",
                     row |-> [display_name |-> obj.display_name,
                              entity_value |-> obj.entities[i].value,
                              synonyms |-> obj.entities[i].synonyms[j]]]]])
        excl_dicts ==
            [i \in 1..Len(obj.excluded_phrases) |->
                [kind |-> "dict",
                 row |-> [display_name |-> obj.display_name,
                          excluded_phrase |-> obj.excluded_phrases[i]]]]
        main_df == concat_each(EmptyDataFrame, dicts)
        excl_phrases_df == concat_each(EmptyDataFrame, excl_dicts)
    IN IF mode = "basic"
       THEN Frames(main_df.status, main_df.df, EmptyDataFrame)
       ELSE IF mode = "advanced"
       THEN IF main_df.status # "ok"
            THEN Frames(main_df.status, EmptyDataFrame, EmptyDataFrame)
            ELSE Frames(excl_phrases_df.status, main_df.df,
                        excl_phrases_df.df)
       ELSE Frames("ValueError", EmptyDataFrame, EmptyDataFrame)

(* EntityTypes.entity_types_to_df: the entity types are listed, the frames *)
(* of those in the subset are concatenated, and the result is sorted       *)
(* (basic) or cast (advanced).  `if entity_type_subset and                 *)
(* obj.display_name not in entity_type_subset: continue`: None and the     *)
(* empty list keep every entity type.                                      *)
entity_types_to_df(ids, a, remote) ==
    LET listing == list_entity_types(ids, [agent_id |-> a.agent_id], remote)
        entity_types == listing.response
        in_subset(obj) ==
            \/ a.entity_type_subset.kind = "None"
            \/ a.entity_type_subset.items = <<>>
            \/ obj.display_name \in Range(a.entity_type_subset.items)
        kept == SelectSeqBy(entity_types,
                    {i \in 1..Len(entity_types) :
                        in_subset(entity_types[i])})
        single == [i \in 1..Len(kept) |->
                      entity_type_proto_to_dataframe(kept[i], a.mode)]
        bad == {i \in 1..Len(kept) : single[i].status # "ok"}
        first_bad == CHOOSE i \in bad : \A j \in bad : i <= j
        main_df == concat_each(EmptyDataFrame,
                       [i \in 1..Len(kept) |-> single[i].entity_types])
        excl_phrases_df ==
            concat_each(EmptyDataFrame,
                [i \in 1..Len(kept) |-> single[i].excluded_phrases])
        sorted == sort_values(main_df.df, <<"display_name", "entity_value">>)
        cast == astype(main_df.df,
                       {"auto_expansion_mode", "fuzzy_extraction", "redact"})
        raised(error) ==
            Outcome(listing.requests, "LocalError", error,
                    Frames(error, EmptyDataFrame, EmptyDataFrame))
    IN IF listing.status # "ok"
       THEN Outcome(listing.requests, listing.status, listing.error,
                    Frames(listing.status, EmptyDataFrame, EmptyDataFrame))
       ELSE IF a.mode \notin {"basic", "advanced"} THEN raised("ValueError")
       ELSE IF bad # {} THEN raised(single[first_bad].status)
       ELSE IF a.mode = "basic"
       THEN IF sorted.status # "ok" THEN raised(sorted.status)
            ELSE Outcome(listing.requests, "ok", "",
                         Frames("ok", sorted.df, EmptyDataFrame))
       ELSE IF cast.status # "ok" THEN raised(cast.status)
            ELSE Outcome(listing.requests, "ok", "",
                         Frames("ok", cast.df, excl_phrases_df.df))

(* A dict comprehension over the listed entity types: a key that comes     *)
(* more than once keeps the value it was given last.                       *)
dict_of(entities, key, value) ==
    [k \in {entities[i][key] : i \in 1..Len(entities)} |->
        LET at == {i \in 1..Len(entities) : entities[i][key] = k}
            last_at == CHOOSE i \in at : \A j \in at : j <= i
        IN entities[last_at][value]]

(* Mutant: the reverse flag is not looked at.                              *)
get_entities_map_ignoring_reverse(ids, a, remote) ==
    LET listing == list_entity_types(ids, [agent_id |-> a.agent_id], remote)
    IN IF listing.status # "ok" THEN [listing EXCEPT !.response = <<>>]
       ELSE [listing EXCEPT
                !.response = dict_of(listing.response, "name",
                                     "display_name")]

(* EntityTypes.get_entities_map                                            *)
get_entities_map(ids, a, remote) ==
    LET listing == list_entity_types(ids, [agent_id |-> a.agent_id], remote)
    IN IF listing.status # "ok" THEN [listing EXCEPT !.response = <<>>]
       ELSE IF a.reverse
       THEN [listing EXCEPT
                !.response = dict_of(listing.response, "display_name",
                                     "name")]
       ELSE [listing EXCEPT
                !.response = dict_of(listing.response, "name",
                                     "display_name")]

----------------------------------------------------------------------------
(* PageBuilder._Dataframe (builders/pages.py).                             *)

(* pd.concat(objs, axis=1) of two frames: the rows are put side by side.   *)
pd_concat_columns(left, right) ==
    LET n == IF Len(left.rows) >= Len(right.rows) THEN Len(left.rows)
             ELSE Len(right.rows)
        row(df, i) == IF i <= Len(df.rows) THEN df.rows[i]
                      ELSE [c \in {} |-> ""]
        merged(l, r) == [c \in DOMAIN l \cup DOMAIN r |->
                            IF c \in DOMAIN l THEN l[c] ELSE r[c]]
    IN DataFrame(left.columns \cup right.columns,
                 [i \in 1..n |-> merged(row(left, i), row(right, i))])

(* FulfillmentBuilder.to_dataframe: one row for the fulfillment.           *)
FulfillmentBuilder_to_dataframe(ff, mode) ==
    IF mode = "basic"
    THEN DataFrame({"has_fulfillment", "has_fulfillment_webhook"},
                   <<[has_fulfillment |-> ff # EmptyFulfillment,
                      has_fulfillment_webhook |-> has_webhook(ff)]>>)
    ELSE DataFrame({"messages", "preset_parameters", "webhook",
                    "webhook_tag"},
                   <<[messages |-> ff.messages,
                      preset_parameters |-> ff.set_parameter_actions,
                      webhook |-> ff.webhook, webhook_tag |-> ff.tag]>>)

(* EventHandlerBuilder.to_dataframe: one row for the event handler.        *)
EventHandlerBuilder_to_dataframe(eh, mode) ==
    pd_concat_columns(
        DataFrame({"event"}, <<[event |-> eh.event]>>),
        FulfillmentBuilder_to_dataframe(eh.trigger_fulfillment, mode))

RECURSIVE form_params_loop(_, _, _)
(* The loop of _create_form_params_df over the parameters left, out_df     *)
(* being the frame built so far: the row of the initial prompt is added,   *)
(* then `if ehs_df.empty: return out_df`, else one row per reprompt event  *)
(* handler is added and the loop goes on.                                  *)
form_params_loop(params, mode, out_df) ==
    IF params = <<>> THEN out_df
    ELSE LET param == Head(params)
             basic_row == [parameter_display_name |-> param.display_name,
                           parameter_entity_type |-> param.entity_type]
             advanced_row ==
                 [parameter_display_name |-> param.display_name,
                  parameter_entity_type |-> param.entity_type,
                  parameter_is_required |-> param.required,
                  parameter_is_list |-> param.is_list,
                  parameter_is_redact |-> param.redact,
                  parameter_default_value |->
                      IF param.required THEN "nan" ELSE param.default_value]
             param_df == IF mode = "basic"
                         THEN DataFrame(DOMAIN basic_row, <<basic_row>>)
                         ELSE DataFrame(DOMAIN advanced_row, <<advanced_row>>)
             prompt_ff_df == FulfillmentBuilder_to_dataframe(
                 param.fill_behavior.initial_prompt_fulfillment, mode)
             tmp_df == pd_concat_columns(param_df, prompt_ff_df)
             with_prompt == pd_concat(<<out_df, tmp_df>>).df
             ehs == param.fill_behavior.reprompt_event_handlers
             ehs_df == concat_each(EmptyDataFrame,
                           [i \in 1..Len(ehs) |->
                               EventHandlerBuilder_to_dataframe(ehs[i],
                                                                mode)]).df
             tmp_param_df == DataFrame(param_df.columns,
                                 [i \in 1..Len(ehs_df.rows) |->
                                     param_df.rows[1]])
             param_eh_df == pd_concat_columns(tmp_param_df, ehs_df)
         IN IF ehs_df.rows = <<>> THEN with_prompt
            ELSE form_params_loop(Tail(params), mode,
                     pd_concat(<<with_prompt, param_eh_df>>).df)

(* PageBuilder._Dataframe._create_form_params_df                           *)
create_form_params_df(form_parameter_list, mode) ==
    LET cols ==
            IF mode = "basic"
            THEN {"parameter_display_name", "parameter_entity_type",
                  "has_fulfillment", "has_fulfillment_webhook"}
            ELSE {"parameter_display_name", "parameter_entity_type",
                  "parameter_is_required", "parameter_is_list",
                  "parameter_is_redact", "parameter_default_value",
                  "messages", "preset_parameters", "conditional_cases",
                  "webhook", "webhook_tag", "return_partial_responses"}
    IN IF mode \notin {"basic", "advanced"}
       THEN DfResult("KeyError", EmptyDataFrame)
       ELSE IF form_parameter_list = <<>>
       THEN DfResult("ok", DataFrame(cols, <<>>))
       ELSE DfResult("ok", form_params_loop(form_parameter_list, mode,
                                            DataFrame(cols, <<>>)))

(* No frame made yet.                                                      *)
NoFrame == [op |-> "none", mode |-> "", status |-> "ok",
            df |-> EmptyDataFrame]

----------------------------------------------------------------------------
(* Inputs.                                                                 *)
BoolArg(b) == [kind |-> "bool", b |-> b]

(* The int 1 given where a bool is expected.                               *)
IntOne == [kind |-> "int", b |-> TRUE]

(* The argument records that differ from base in one field.                *)
ArgsWith(base, field, values) == {[base EXCEPT ![field] = v] : v \in values}

RouteObjects ==
    {PlainRoute("i1", ""), PlainRoute("", "c1"), PlainRoute("i1", "c1"),
     EmptyRoute}

RouteObjArgs ==
    {ObjNone, ObjBad}
    \cup {ObjOne(r) : r \in RouteObjects}
    \cup {ObjList(<<PlainRoute("i1", ""), r>>) :
            r \in {PlainRoute("", "c1"), EmptyRoute}}
    \cup {ObjMixed(<<PlainRoute("i1", "")>>)}

CreatePageArgs ==
    [display_name : {PyStr("P1"), PyStr("P2")},
     entry_fulfillment : {FfNone, FfObj(HiFulfillment)},
     overwrite : BOOLEAN]
    \cup [display_name : {PyStr(""), PyInt},
          entry_fulfillment : {FfNone},
          overwrite : BOOLEAN]
    \cup [display_name : {PyStr("P1")},
          entry_fulfillment : {FfBad},
          overwrite : BOOLEAN]

CreateTRGArgs ==
    [display_name : {PyStr("P1")},
     transition_routes : RouteObjArgs,
     overwrite : BOOLEAN]
    \cup [display_name : {PyStr("P2"), PyStr(""), PyInt},
          transition_routes : {ObjNone},
          overwrite : BOOLEAN]

SetEntryFulfillmentArgs ==
    LET base == [message |-> PyStr("hi"), webhook |-> PyNone,
                 tag |-> PyNone, parameter_map |-> PyNone]
    IN {base, [base EXCEPT !.webhook = PyStr("wh"), !.tag = PyStr("t")],
        [base EXCEPT !.webhook = PyStr("wh")]}
       \cup ArgsWith(base, "message", {PyNone, PyInt})

EventHandlerObjects == {PlainEventHandler("e1"), PlainEventHandler("e2")}

AddParameterBase ==
    [display_name |-> PyStr("A"), entity_type |-> PyStr("sys.any"),
     initial_prompt_fulfillment |-> FfObj(HiFulfillment),
     required |-> BoolArg(TRUE), default_value |-> PyNone,
     is_list |-> BoolArg(FALSE), redact |-> BoolArg(FALSE),
     reprompt_event_handlers |-> ObjNone]

AddParameterArgs ==
    {[AddParameterBase EXCEPT !.required = r, !.default_value = d] :
        r \in {BoolArg(TRUE), BoolArg(FALSE)},
        d \in {PyNone, PyStr("d")}}
    \cup ArgsWith(AddParameterBase, "display_name",
                  {PyStr("B"), PyStr(""), PyInt})
    \cup ArgsWith(AddParameterBase, "entity_type", {PyStr("")})
    \cup ArgsWith(AddParameterBase, "initial_prompt_fulfillment",
                  {FfNone, FfObj(EmptyFulfillment), FfBad})
    \cup ArgsWith(AddParameterBase, "required", {IntOne})
    \cup ArgsWith(AddParameterBase, "reprompt_event_handlers",
                  {ObjOne(PlainEventHandler("e1")), ObjBad,
                   ObjMixed(<<PlainEventHandler("e1")>>), ObjEmptyStr})

AddRouteBase ==
    [transition_routes |-> ObjNone, intent |-> PyNone, condition |-> PyNone,
     target_page |-> PyNone, target_flow |-> PyNone,
     trigger_fulfillment |-> FfNone, agent_response |-> PyNone,
     parameter_map |-> PyNone]

AddRouteArgs ==
    ArgsWith(AddRouteBase, "transition_routes", RouteObjArgs)
    \cup {[AddRouteBase EXCEPT !.intent = i, !.condition = c] :
            i \in {PyNone, PyStr("i1")}, c \in {PyNone, PyStr("c1")}}
    \cup ArgsWith(AddRouteBase, "intent", {PyStr(""), PyInt})
    \cup ArgsWith([AddRouteBase EXCEPT !.intent = PyStr("i1")],
                  "agent_response", {PyStr("hi"), PyInt})
    \cup {[AddRouteBase EXCEPT !.intent = PyStr("i1"),
                               !.target_page = PyStr("pg"),
                               !.target_flow = PyStr("fl")],
          [AddRouteBase EXCEPT !.intent = PyStr("i1"),
                               !.trigger_fulfillment = FfBad]}
    \cup {[AddRouteBase EXCEPT
               !.transition_routes = ObjOne(PlainRoute("", "c1")),
               !.intent = i, !.agent_response = r] :
            i \in {PyStr("i1"), PyInt}, r \in {PyNone, PyInt}}
    \cup {[AddRouteBase EXCEPT !.transition_routes = t,
                               !.target_page = PyStr("pg"),
                               !.target_flow = PyStr("fl")] :
            t \in {ObjList(<<PlainRoute("i1", ""), PlainRoute("", "c1")>>),
                   ObjBad}}
    \cup ArgsWith(AddRouteBase, "transition_routes", {ObjEmptyStr})

RemoveRouteArgs ==
    [transition_route :
        {ObjNone, ObjOne(PlainRoute("i1", "")),
         ObjOne(TransitionRoute("i1", "", HiFulfillment, "", ""))},
     intent : {PyNone, PyStr("i1")},
     condition : {PyNone, PyStr("c1")}]
    \cup {[transition_route |-> ObjBad, intent |-> PyNone,
           condition |-> PyNone]}

AddEventHandlerBase ==
    [event_handlers |-> ObjNone, event |-> PyNone,
     target_page |-> PyNone, target_flow |-> PyNone,
     trigger_fulfillment |-> FfNone, agent_response |-> PyNone,
     parameter_map |-> PyNone]

AddEventHandlerArgs ==
    ArgsWith(AddEventHandlerBase, "event_handlers",
             {ObjBad, ObjMixed(<<PlainEventHandler("e1")>>),
              ObjList(<<PlainEventHandler("e1"), PlainEventHandler("e2")>>)}
             \cup {ObjOne(eh) : eh \in EventHandlerObjects})
    \cup ArgsWith(AddEventHandlerBase, "event",
                  {PyNone, PyStr("e1"), PyInt})
    \cup {[AddEventHandlerBase EXCEPT !.event = PyStr("e1"),
                                      !.agent_response = PyStr("hi")]}
    \cup {[AddEventHandlerBase EXCEPT
               !.event_handlers = ObjOne(PlainEventHandler("e2")),
               !.event = e] : e \in {PyStr("e1"), PyInt}}
    \cup {[AddEventHandlerBase EXCEPT
               !.event_handlers = ObjOne(PlainEventHandler("e1")),
               !.target_page = PyStr("pg"), !.target_flow = PyStr("fl")]}
    \cup ArgsWith(AddEventHandlerBase, "event_handlers", {ObjEmptyStr})

RemoveEventHandlerArgs ==
    [event_handlers :
        {ObjNone, ObjBad, ObjOne(PlainEventHandler("e1")),
         ObjList(<<PlainEventHandler("e1"), PlainEventHandler("e2")>>)},
     event_names : {ObjNone}]
    \cup [event_handlers : {ObjNone},
          event_names : {ObjBad, ObjOne(""), ObjList(<<>>), ObjOne("e1"),
                         ObjList(<<"e1", "e2">>)}]
    \cup [event_handlers : {ObjOne(PlainEventHandler("e1"))},
          event_names : {ObjOne("e1"), ObjOne("")}]

RouteGroupArgs ==
    {ObjNone, ObjBad, ObjMixed(<<"g1">>), ObjList(<<>>), ObjOne("g1"),
     ObjOne("g2"), ObjList(<<"g1", "g2">>)}

RemoveParameterArgs ==
    {ObjNone, ObjBad, ObjMixed(<<"A">>), ObjOne(""), ObjList(<<>>),
     ObjOne("A"), ObjOne("B"), ObjList(<<"A", "B">>)}

ShowModes == {"whole", "basic", "everything"}

DataframeModes == {"basic", "advanced", "whole"}

----------------------------------------------------------------------------
(* What is recorded of the call that a remove_transition_route call        *)
(* follows: whether it was an add_transition_route that appended exactly   *)
(* one route.  Nothing is recorded for the other methods.                  *)
Summary(op) ==
    IF /\ op = "remove_transition_route"
       /\ last.op = "add_transition_route"
       /\ last.status = "ok"
       /\ Len(proto_obj.transition_routes) = Len(pre.transition_routes) + 1
    THEN "add_one_route"
    ELSE "other"

(* The PageStats instance show_stats makes for the held Page and reports:  *)
(* `stats_instance = PageStats(self.proto_obj)` and                        *)
(* `stats_instance.generate_stats()`.  It is a local of show_stats; after  *)
(* any other call there is none.                                           *)
stats_instance(op, r) ==
    IF op = "show_stats" /\ r.status = "ok"
    THEN generate_stats(PageStats, r.obj)
    ELSE PageStats

(* A call of method op with arguments args that ended as r says.           *)
Call(op, args, r) ==
    /\ Size(r.obj) <= IF r.obj.type = "Page" THEN MaxPageItems
                      ELSE MaxGroupRoutes
    /\ proto_obj' = r.obj
    /\ pre' = proto_obj
    /\ last' = [op |-> op, args |-> args, status |-> r.status]
    /\ before' = Summary(op)
    /\ stats' = stats_instance(op, r)
    /\ UNCHANGED <<proto_type, calls, self, rpc, frame>>

IsPageBuilder == proto_type = "Page"

IsTRGBuilder == proto_type = "TransitionRouteGroup"

create_new_page ==
    /\ IsPageBuilder
    /\ \E a \in CreatePageArgs :
          Call("create", a, Page_create_new_proto_obj(proto_obj, a))

create_new_transition_route_group ==
    /\ IsTRGBuilder
    /\ \E a \in CreateTRGArgs :
          Call("create", a, TRG_create_new_proto_obj(proto_obj, a))

SetEntryFulfillment ==
    /\ IsPageBuilder
    /\ \E a \in SetEntryFulfillmentArgs :
          Call("set_entry_fulfillment", a, set_entry_fulfillment(proto_obj, a))

AddParameter ==
    /\ IsPageBuilder
    /\ \E a \in AddParameterArgs :
          Call("add_parameter", a, add_parameter(proto_obj, a))

AddTransitionRoute ==
    /\ IsPageBuilder
    /\ \E a \in AddRouteArgs :
          Call("add_transition_route", a, add_transition_route(proto_obj, a))

TRGAddTransitionRoute ==
    /\ IsTRGBuilder
    /\ \E a \in AddRouteArgs :
          Call("add_transition_route", a,
               TRG_add_transition_route(proto_obj, a))

AddEventHandler ==
    /\ IsPageBuilder
    /\ \E a \in AddEventHandlerArgs :
          Call("add_event_handler", a, add_event_handler(proto_obj, a))

AddTransitionRouteGroup ==
    /\ IsPageBuilder
    /\ \E g \in RouteGroupArgs :
          LET a == [transition_route_groups |-> g]
          IN Call("add_transition_route_group", a,
                  add_transition_route_group(proto_obj, a))

RemoveParameter ==
    /\ IsPageBuilder
    /\ \E n \in RemoveParameterArgs :
          LET a == [display_name |-> n]
          IN Call("remove_parameter", a, remove_parameter(proto_obj, a))

RemoveTransitionRoute ==
    /\ IsPageBuilder
    /\ \E a \in RemoveRouteArgs :
          Call("remove_transition_route", a,
               remove_transition_route(proto_obj, a))

TRGRemoveTransitionRoute ==
    /\ IsTRGBuilder
    /\ \E a \in RemoveRouteArgs :
          Call("remove_transition_route", a,
               TRG_remove_transition_route(proto_obj, a))

RemoveEventHandler ==
    /\ IsPageBuilder
    /\ \E a \in RemoveEventHandlerArgs :
          Call("remove_event_handler", a,
               remove_event_handler(proto_obj, a))

RemoveTransitionRouteGroup ==
    /\ IsPageBuilder
    /\ \E g \in RouteGroupArgs :
          LET a == [transition_route_groups |-> g]
          IN Call("remove_transition_route_group", a,
                  remove_transition_route_group(proto_obj, a))

ShowPageInfo ==
    /\ IsPageBuilder
    /\ \E m \in ShowModes :
          LET a == [mode |-> m]
          IN Call("show_page_info", a, show_page_info(proto_obj, a))

ShowStats ==
    /\ IsPageBuilder
    /\ Call("show_stats", <<>>, show_stats(proto_obj))

ShowTransitionRouteGroup ==
    /\ IsTRGBuilder
    /\ Call("show_transition_route_group", <<>>,
            show_transition_route_group(proto_obj))

ToDataframe ==
    \E m \in DataframeModes :
        LET a == [mode |-> m]
        IN Call("to_dataframe", a, to_dataframe(proto_obj, a))

Init ==
    /\ proto_type \in {"Page", "TransitionRouteGroup"}
    /\ proto_obj = NoObj
    /\ pre = NoObj
    /\ last = [op |-> "init", args |-> <<>>, status |-> "ok"]
    /\ before = "other"
    /\ stats = PageStats
    /\ calls = 0
    /\ self = NoIds
    /\ rpc = NoRpc
    /\ frame = NoFrame

Next ==
    \/ create_new_page
    \/ create_new_transition_route_group
    \/ SetEntryFulfillment
    \/ AddParameter
    \/ AddTransitionRoute
    \/ TRGAddTransitionRoute
    \/ AddEventHandler
    \/ AddTransitionRouteGroup
    \/ RemoveParameter
    \/ RemoveTransitionRoute
    \/ TRGRemoveTransitionRoute
    \/ RemoveEventHandler
    \/ RemoveTransitionRouteGroup
    \/ ShowPageInfo
    \/ ShowStats
    \/ ShowTransitionRouteGroup
    \/ ToDataframe

Spec == Init /\ [][Next]_vars

----------------------------------------------------------------------------
(* PageStats over a Page built elsewhere.  The instance keeps its counters *)
(* between calls; every calc_* method and generate_stats is public.        *)
SeqsUpTo(S, n) == UNION {[1..k -> S] : k \in 0..n}

WebhookFulfillment == Fulfillment("", "wh", "t", "")

StatsParameters ==
    {Parameter("A", TRUE, "sys.any", FALSE, FALSE, "",
               FillBehavior(HiFulfillment, <<>>)),
     Parameter("B", TRUE, "sys.any", FALSE, FALSE, "",
               FillBehavior(HiFulfillment, <<PlainEventHandler("e1")>>)),
     Parameter("C", FALSE, "sys.any", FALSE, FALSE, "d",
               FillBehavior(WebhookFulfillment,
                            <<PlainEventHandler("e1"),
                              PlainEventHandler("e2")>>))}

StatsRoutes ==
    {PlainRoute("i1", ""),
     TransitionRoute("", "c1", HiFulfillment, "", ""),
     TransitionRoute("i1", "c1", WebhookFulfillment, "pg", ""),
     EmptyRoute}

(* The Pages handed to PageStats.                                          *)
StatsPages ==
    {[Page("P1", ff) EXCEPT !.parameters = ps, !.transition_routes = trs,
                            !.event_handlers = ehs,
                            !.transition_route_groups = gs] :
        ff \in {EmptyFulfillment}, ps \in SeqsUpTo(StatsParameters, MaxStatsItems),
        trs \in SeqsUpTo(StatsRoutes, MaxStatsItems),
        ehs \in {<<>>, <<EventHandler("e1", WebhookFulfillment, "", "")>>},
        gs \in {<<>>}}
    \cup {[Page("P2", HiFulfillment) EXCEPT
              !.parameters = ps,
              !.event_handlers = <<PlainEventHandler("e1"),
                                   EventHandler("e2", HiFulfillment, "", "")>>,
              !.transition_route_groups = <<"g1">>] :
            ps \in SeqsUpTo(StatsParameters, 1)}

StatsInit ==
    /\ proto_type = "Page"
    /\ proto_obj \in StatsPages
    /\ pre = NoObj
    /\ last = [op |-> "PageStats", args |-> <<>>, status |-> "ok"]
    /\ before = "other"
    /\ stats = PageStats
    /\ calls = 0
    /\ self = NoIds
    /\ rpc = NoRpc
    /\ frame = NoFrame

(* A call of method op on the PageStats instance, leaving it as st.        *)
StatsCall(op, st) ==
    /\ calls < MaxStatsCalls
    /\ stats' = st
    /\ calls' = calls + 1
    /\ last' = [op |-> op, args |-> <<>>, status |-> "ok"]
    /\ UNCHANGED <<proto_type, proto_obj, pre, before, self, rpc, frame>>

(* PageStats(page): a new instance for the same Page.                      *)
NewPageStats ==
    /\ calls > 0
    /\ stats' = PageStats
    /\ calls' = 0
    /\ last' = [op |-> "PageStats", args |-> <<>>, status |-> "ok"]
    /\ UNCHANGED <<proto_type, proto_obj, pre, before, self, rpc, frame>>

CalcParameterStats ==
    StatsCall("calc_parameter_stats", calc_parameter_stats(stats, proto_obj))

CalcTransitionRouteStats ==
    StatsCall("calc_transition_route_stats",
              calc_transition_route_stats(stats, proto_obj))

CalcEventHandlerStats ==
    StatsCall("calc_event_handler_stats",
              calc_event_handler_stats(stats, proto_obj))

GenerateStats ==
    StatsCall("generate_stats", generate_stats(stats, proto_obj))

(* _create_form_params_df called on the parameters of the Page.            *)
CreateFormParamsDf ==
    \E mode \in DataframeModes :
        LET r == create_form_params_df(proto_obj.parameters, mode)
        IN /\ frame' = [op |-> "create_form_params_df", mode |-> mode,
                        status |-> r.status, df |-> r.df]
           /\ UNCHANGED <<proto_type, proto_obj, last, pre, before, stats,
                          calls, self, rpc>>

StatsNext ==
    \/ NewPageStats
    \/ CalcParameterStats
    \/ CalcTransitionRouteStats
    \/ CalcEventHandlerStats
    \/ GenerateStats
    \/ CreateFormParamsDf

StatsSpec == StatsInit /\ [][StatsNext]_vars

----------------------------------------------------------------------------
(* One EntityTypes instance and the remote service behind it.  A forwarder *)
(* is called, its outcome is looked at, and the instance is called again.  *)
RemoteAnswers == {"ok", "Unavailable", "NotFound"}

ListedEntityTypes ==
    {EntityType("et1", "d1", "KIND_MAP"), EntityType("et2", "d2", "KIND_LIST")}

SeqsFromTo(S, m, n) == UNION {[1..k -> S] : k \in m..n}

(* What the remote service does on a listing: the response pages, and the  *)
(* page request that fails (0: none) with the error it fails with.         *)
ListRemotes ==
    {[pages |-> ps,
      answers |-> [k \in 1..Len(ps) |-> IF k = f THEN e ELSE "ok"]] :
        ps \in SeqsFromTo(SeqsUpTo(ListedEntityTypes, MaxPageSize),
                          1, MaxPages),
        f \in 0..MaxPages, e \in RemoteAnswers \ {"ok"}}

EntityIdArgs == {PyNone, PyStr("et1")}

EtObjArgs ==
    {EtNone, EtObj(EmptyEntityType),
     EtObj(EntityType("et9", "d9", "KIND_MAP")),
     EtObj(EntityType("", "d9", ""))}

(* **kwargs: the field values given by keyword.                            *)
KwargsArgs ==
    {[k \in {} |-> ""],
     [k \in {"display_name"} |-> "d2"],
     [k \in {"display_name", "kind"} |->
         IF k = "kind" THEN "KIND_LIST" ELSE "d2"],
     [k \in {"name"} |-> "et2"],
     [k \in {"colour"} |-> "red"],
     [k \in {"display_name", "colour"} |->
         IF k = "colour" THEN "red" ELSE "d2"]}

LanguageCodeArgs == {PyNone, PyStr("en")}

ETInit ==
    /\ proto_type = "Page"
    /\ proto_obj = NoObj
    /\ pre = NoObj
    /\ last = [op |-> "init", args |-> <<>>, status |-> "ok"]
    /\ before = "other"
    /\ stats = PageStats
    /\ calls = 0
    /\ self \in [entity_id : {PyNone, PyStr("et0")},
                  agent_id : {PyNone, PyStr("ag0")}]
    /\ rpc = NoRpc
    /\ frame = NoFrame

(* A forwarder op called with args while the remote service behaves as     *)
(* remote says, ending as out.                                             *)
Forward(op, args, remote, out) ==
    /\ rpc.op = "none"
    /\ rpc' = [op |-> op, args |-> args, remote |-> remote, out |-> out,
               obj_after |-> caller_object_after(op, args)]
    /\ UNCHANGED <<proto_type, proto_obj, last, pre, before, stats, calls,
                   self, frame>>

ListEntityTypes ==
    \E id \in {PyNone, PyStr("ag1")}, remote \in ListRemotes :
        LET a == [agent_id |-> id]
        IN Forward("list_entity_types", a, remote,
                   list_entity_types(self, a, remote))

GetEntityType ==
    \E id \in EntityIdArgs, answer \in RemoteAnswers :
        LET a == [entity_id |-> id]
            remote == [get |-> answer]
        IN Forward("get_entity_type", a, remote,
                   get_entity_type(self, a, remote))

CreateEntityType ==
    \E id \in {PyNone, PyStr("ag1")}, obj \in EtObjArgs,
       lc \in LanguageCodeArgs, kw \in KwargsArgs,
       answer \in RemoteAnswers :
        LET a == [agent_id |-> id, obj |-> obj, language_code |-> lc,
                  kwargs |-> kw]
            remote == [create |-> answer]
        IN Forward("create_entity_type", a, remote,
                   create_entity_type(self, a, remote))

UpdateEntityType ==
    \E id \in EntityIdArgs, obj \in EtObjArgs, lc \in LanguageCodeArgs,
       kw \in KwargsArgs, g \in RemoteAnswers, u \in RemoteAnswers :
        LET a == [entity_type_id |-> id, obj |-> obj, language_code |-> lc,
                  kwargs |-> kw]
            remote == [get |-> g, update |-> u]
        IN Forward("update_entity_type", a, remote,
                   update_entity_type(self, a, remote))

(* The entity types a listing for a dataframe holds: without entities,     *)
(* with an entity without synonyms, with an entity with two synonyms and   *)
(* an excluded phrase.                                                     *)
DfEntityTypes ==
    {EntityTypeWith("et1", "b", <<>>, <<>>),
     EntityTypeWith("et2", "a", <<[value |-> "v1", synonyms |-> <<>>]>>,
                    <<>>),
     EntityTypeWith("et3", "a",
                    <<[value |-> "v2", synonyms |-> <<"s1", "s2">>]>>,
                    <<"zz">>)}

(* entity_types_to_df called with entity_type_subset None or a list of     *)
(* display names, the listing being one page that is answered or fails.    *)
EntityTypesToDf ==
    \E id \in {PyNone, PyStr("ag1")}, mode \in DataframeModes,
       subset \in {[kind |-> "None", items |-> <<>>],
                   [kind |-> "list", items |-> <<>>],
                   [kind |-> "list", items |-> <<"a">>],
                   [kind |-> "list", items |-> <<"zz">>]},
       p \in SeqsUpTo(DfEntityTypes, MaxPageSize),
       e \in {"ok", "Unavailable"} :
        LET a == [agent_id |-> id, mode |-> mode,
                  entity_type_subset |-> subset]
            remote == [pages |-> <<p>>, answers |-> <<e>>]
        IN Forward("entity_types_to_df", a, remote,
                   entity_types_to_df(self, a, remote))

(* get_entities_map called while the listing is up to MaxPageSize entity   *)
(* types on one page, among them two that share a display name.            *)
GetEntitiesMap ==
    \E id \in {PyNone, PyStr("ag1")}, reverse \in BOOLEAN,
       p \in SeqsUpTo(ListedEntityTypes
                          \cup {EntityType("et3", "d1", "KIND_MAP")},
                      MaxPageSize),
       e \in {"ok", "Unavailable"} :
        LET a == [agent_id |-> id, reverse |-> reverse]
            remote == [pages |-> <<p>>, answers |-> <<e>>]
        IN Forward("get_entities_map", a, remote,
                   get_entities_map(self, a, remote))

DeleteEntityType ==
    \E id \in EntityIdArgs, obj \in EtObjArgs, answer \in RemoteAnswers :
        LET a == [entity_id |-> id, obj |-> obj]
            remote == [delete |-> answer]
        IN Forward("delete_entity_type", a, remote,
                   delete_entity_type(self, a, remote))

(* The forwarder has returned or raised; the instance is as it was.        *)
Return ==
    /\ rpc.op # "none"
    /\ rpc' = NoRpc
    /\ UNCHANGED <<proto_type, proto_obj, last, pre, before, stats, calls,
                   self, frame>>

ETNext ==
    \/ ListEntityTypes
    \/ GetEntityType
    \/ CreateEntityType
    \/ UpdateEntityType
    \/ DeleteEntityType
    \/ EntityTypesToDf
    \/ GetEntitiesMap
    \/ Return

ETSpec == ETInit /\ [][ETNext]_vars

----------------------------------------------------------------------------
(* Properties.  last is the last call (method, arguments, how it ended),   *)
(* pre the object held before it and proto_obj the object held after it.   *)

(* The builder held an object when the last call was made.                 *)
HeldBefore == pre.type # "None"

RouteHasIntentOrCondition(r) == r.intent # "" \/ r.condition # ""

(* The arguments of a create call are of the declared kinds: a nonempty    *)
(* string as display name, and as seed content nothing or a Fulfillment    *)
(* (Page), nothing or a route or a list of routes (TransitionRouteGroup).  *)
ValidCreateArgs(a) ==
    /\ IsNonemptyStr(a.display_name)
    /\ IsPageBuilder => a.entry_fulfillment.kind \in {"None", "Fulfillment"}
    /\ IsTRGBuilder => a.transition_routes.kind \in {"None", "one", "list"}

CreateWithoutOverwriteOnHolder ==
    /\ last.op = "create"
    /\ ~last.args.overwrite
    /\ HeldBefore

C2_OverwriteReplaces ==
    ( /\ last.op = "create"
      /\ last.args.overwrite
      /\ HeldBefore
      /\ ValidCreateArgs(last.args)
      /\ IsTRGBuilder =>
            \A r \in Range(last.args.transition_routes.items) :
                RouteHasIntentOrCondition(r) )
        => /\ last.status = "ok"
           /\ proto_obj.type = proto_type
           /\ proto_obj.display_name = last.args.display_name.s
           /\ proto_obj.parameters = <<>>
           /\ proto_obj.event_handlers = <<>>
           /\ proto_obj.transition_route_groups = <<>>
           /\ IsPageBuilder =>
                /\ proto_obj.transition_routes = <<>>
                /\ proto_obj.entry_fulfillment =
                     IF last.args.entry_fulfillment.kind = "Fulfillment"
                     THEN last.args.entry_fulfillment.ff
                     ELSE EmptyFulfillment
           /\ IsTRGBuilder =>
                proto_obj.transition_routes =
                    last.args.transition_routes.items

C2_Witness ==
    /\ last.op = "create"
    /\ last.args.overwrite
    /\ last.status = "ok"
    /\ Size(pre) > 0
    /\ pre.display_name # proto_obj.display_name

(* C3 as stated: every route of the held object's route collection has an  *)
(* intent, a condition, or both.                                           *)
C3_EveryRouteHasIntentOrCondition ==
    \A r \in Range(proto_obj.transition_routes) :
        RouteHasIntentOrCondition(r)

(* C4 as stated: the display names of the parameters of the held Page's    *)
(* form are pairwise distinct.                                             *)
C4_ParameterNamesDistinct ==
    \A i, j \in 1..Len(proto_obj.parameters) :
        i # j => proto_obj.parameters[i].display_name
                    # proto_obj.parameters[j].display_name

(* The last call was an add_transition_route without route objects, on a   *)
(* builder holding an object, whose raw values other than intent and       *)
(* condition are acceptable and whose intent and condition are each None   *)
(* or a string.                                                            *)
AddRouteOnTheFly ==
    /\ last.op = "add_transition_route"
    /\ HeldBefore
    /\ last.args.transition_routes.kind = "None"
    /\ last.args.intent.kind \in {"None", "str"}
    /\ last.args.condition.kind \in {"None", "str"}
    /\ last.args.agent_response.kind # "int"
    /\ last.args.parameter_map.kind # "int"
    /\ last.args.trigger_fulfillment.kind # "str"
    /\ ~(Truthy(last.args.target_page) /\ Truthy(last.args.target_flow))

(* C5: add_transition_route without route objects succeeds when an intent  *)
(* or a condition is given, appending one route with that intent and       *)
(* condition, and fails when neither is given, the route collection then   *)
(* being as before.                                                        *)
C5_AddRouteOnTheFly ==
    AddRouteOnTheFly =>
        LET old == pre.transition_routes
            new == proto_obj.transition_routes
        IN IF Truthy(last.args.intent) \/ Truthy(last.args.condition)
           THEN /\ last.status = "ok"
                /\ Len(new) = Len(old) + 1
                /\ SubSeq(new, 1, Len(old)) = old
                /\ new[Len(new)].intent = ToField(last.args.intent)
                /\ new[Len(new)].condition = ToField(last.args.condition)
           ELSE /\ last.status # "ok"
                /\ new = old

C5_Witness ==
    /\ AddRouteOnTheFly
    /\ ~Truthy(last.args.intent)
    /\ ~Truthy(last.args.condition)
    /\ last.status = "ValueError"
    /\ \E r \in Range(pre.transition_routes) :
          r.intent = "" /\ r.condition = "c1"

(* The criteria of a remove_transition_route call that are given.          *)
RouteCriteriaGiven(a) ==
    \/ a.transition_route.kind = "one"
    \/ a.intent.kind = "str"
    \/ a.condition.kind = "str"

(* Route r meets every criterion the call gives.                           *)
RouteMeetsCriteria(r, a) ==
    /\ RouteCriteriaGiven(a)
    /\ a.transition_route.kind \in {"None", "one"}
    /\ a.transition_route.kind = "one" => r = a.transition_route.items[1]
    /\ a.intent.kind = "str" => r.intent = a.intent.s
    /\ a.condition.kind = "str" => r.condition = a.condition.s

(* The last call was a remove_transition_route that directly followed an   *)
(* add_transition_route of one route, and its criteria match that route    *)
(* and no route the collection had before the add.                         *)
RemoveAfterAddMatchingOnlyAdded ==
    /\ last.op = "remove_transition_route"
    /\ before = "add_one_route"
    /\ LET n == Len(pre.transition_routes)
       IN /\ RouteMeetsCriteria(pre.transition_routes[n], last.args)
          /\ \A i \in 1..(n - 1) :
                ~RouteMeetsCriteria(pre.transition_routes[i], last.args)

(* C6: add_transition_route of one route followed by                       *)
(* remove_transition_route with criteria that match the added route and no *)
(* other route of the collection restores the route collection the builder *)
(* had before the add, same routes in the same order.                      *)
C6_RemoveUndoesAdd ==
    RemoveAfterAddMatchingOnlyAdded
        => /\ last.status = "ok"
           /\ proto_obj.transition_routes =
                SubSeq(pre.transition_routes, 1,
                       Len(pre.transition_routes) - 1)

C6_Witness ==
    /\ RemoveAfterAddMatchingOnlyAdded
    /\ last.status = "ok"
    /\ Len(proto_obj.transition_routes) >= 1
    /\ last.args.transition_route.kind = "None"

(* The object a remove call must leave: pre with the elements of the       *)
(* collection that the call's arguments match taken out, the others in     *)
(* their order.                                                            *)
AfterRemoval ==
    LET a == last.args
        KeepParameter(x) == x.display_name \notin Range(a.display_name.items)
        KeepRoute(x) == ~RouteMeetsCriteria(x, a)
        KeepHandler(x) ==
            IF ObjTruthy(a.event_handlers, EmptyEventHandler)
            THEN x \notin Range(a.event_handlers.items)
            ELSE x.event \notin Range(a.event_names.items)
        KeepGroup(x) == x \notin Range(a.transition_route_groups.items)
    IN CASE last.op = "remove_parameter" ->
              [pre EXCEPT !.parameters = SelectSeq(@, KeepParameter)]
         [] last.op = "remove_transition_route" ->
              [pre EXCEPT !.transition_routes = SelectSeq(@, KeepRoute)]
         [] last.op = "remove_event_handler" ->
              [pre EXCEPT !.event_handlers = SelectSeq(@, KeepHandler)]
         [] last.op = "remove_transition_route_group" ->
              [pre EXCEPT !.transition_route_groups = SelectSeq(@, KeepGroup)]

RemoveOps ==
    {"remove_parameter", "remove_transition_route", "remove_event_handler",
     "remove_transition_route_group"}

(* C7: a remove call that succeeds leaves in the collection exactly the    *)
(* elements that do not match its arguments, in their original order: all  *)
(* matching elements are removed, and nothing is when none matches.        *)
C7_RemoveTakesAllMatches ==
    (last.op \in RemoveOps /\ last.status = "ok") => proto_obj = AfterRemoval

C7_Witness ==
    /\ last.op = "remove_parameter"
    /\ last.status = "ok"
    /\ Len(pre.parameters) = 2
    /\ pre.parameters[1].display_name = pre.parameters[2].display_name
    /\ proto_obj.parameters = <<>>

(* The last call was a remove call that gives no criterion.                *)
RemoveWithoutCriterion ==
    /\ HeldBefore
    /\ \/ /\ last.op = "remove_transition_route"
          /\ last.args.transition_route.kind = "None"
          /\ last.args.intent.kind = "None"
          /\ last.args.condition.kind = "None"
       \/ /\ last.op = "remove_event_handler"
          /\ last.args.event_handlers.kind = "None"
          /\ last.args.event_names.kind = "None"
       \/ /\ last.op = "remove_parameter"
          /\ last.args.display_name = ObjOne("")

(* C8 as stated: a remove call that gives no criterion ends in an error    *)
(* and leaves the held collection as it was.                               *)
C8_RemoveWithoutCriterionFails ==
    RemoveWithoutCriterion => last.status # "ok" /\ proto_obj = pre

(* C9: a call that ends in an error leaves the held object as it was       *)
(* before the call.                                                        *)
C9_FailedCallChangesNothing ==
    last.status # "ok" => proto_obj = pre

C9_Witness ==
    /\ last.op = "add_parameter"
    /\ last.status = "ValueError"
    /\ last.args.required = BoolArg(FALSE)
    /\ last.args.default_value = PyNone
    /\ Len(pre.parameters) > 0

(* C10: on a builder that holds no object every method other than create   *)
(* fails with the state-precondition error and the builder still holds no  *)
(* object; a builder goes from holding nothing to holding an object only   *)
(* by a create call.                                                       *)
C10_NothingWithoutObject ==
    (~HeldBefore /\ last.op \notin {"init", "create"})
        => last.status = "NoProtoObj" /\ proto_obj = NoObj

C10_Witness ==
    /\ ~HeldBefore
    /\ last.op = "show_stats"
    /\ last.status = "NoProtoObj"
    /\ proto_obj = NoObj

----------------------------------------------------------------------------
(* The raw field values of an add_transition_route or add_event_handler    *)
(* call that are given (are not None).                                     *)
RawValuesGiven(a) ==
    {f \in (DOMAIN a) \ {"transition_routes", "event_handlers"} :
        a[f].kind # "None"}

(* The explicit objects of such a call.                                    *)
ExplicitObjects(op, a) ==
    IF op = "add_transition_route" THEN a.transition_routes
    ELSE a.event_handlers

(* The last call was an add_transition_route or add_event_handler on a     *)
(* held object, given both explicit objects of the declared kind and raw   *)
(* field values.                                                           *)
AddWithObjectsAndRawValues ==
    /\ last.op \in {"add_transition_route", "add_event_handler"}
    /\ HeldBefore
    /\ ExplicitObjects(last.op, last.args).kind \in {"one", "list"}
    /\ RawValuesGiven(last.args) # {}

(* C11: when add_transition_route or add_event_handler is given explicit   *)
(* objects together with raw field values, the call succeeds whatever the  *)
(* raw values are, exactly the explicit objects are appended to their      *)
(* collection in the order given, and nothing else of the object changes.  *)
C11_ExplicitObjectsTakePrecedence ==
    AddWithObjectsAndRawValues =>
        LET field == IF last.op = "add_transition_route"
                     THEN "transition_routes" ELSE "event_handlers"
        IN /\ last.status = "ok"
           /\ proto_obj = [pre EXCEPT ![field] =
                   @ \o ExplicitObjects(last.op, last.args).items]

(* A route object was appended by a call whose raw values alone would have *)
(* been rejected (an intent that is no string).                            *)
C11_Witness ==
    /\ AddWithObjectsAndRawValues
    /\ last.op = "add_transition_route"
    /\ last.args.intent.kind = "int"
    /\ Len(proto_obj.transition_routes) = Len(pre.transition_routes) + 1

----------------------------------------------------------------------------
AddOps ==
    {"add_parameter", "add_transition_route", "add_event_handler",
     "add_transition_route_group"}

(* The argument of an add call that takes objects or a list of objects,    *)
(* and the collection of the held object the call adds to.                 *)
ObjectsArgument(op, a) ==
    CASE op = "add_parameter" -> a.reprompt_event_handlers
      [] op = "add_transition_route" -> a.transition_routes
      [] op = "add_event_handler" -> a.event_handlers
      [] op = "add_transition_route_group" -> a.transition_route_groups

CollectionOf(op, obj) ==
    CASE op = "add_parameter" -> obj.parameters
      [] op = "add_transition_route" -> obj.transition_routes
      [] op = "add_event_handler" -> obj.event_handlers
      [] op = "add_transition_route_group" -> obj.transition_route_groups

(* The argument is given and is neither an object of the declared kind nor *)
(* a list whose elements are all of that kind.                             *)
NotOfDeclaredKind(arg) == arg.kind \in {"other", "mixed", "emptystr"}

(* C12: an add call whose objects argument is neither an object of the     *)
(* declared kind nor a list of such objects fails and adds nothing; an add *)
(* call that succeeds leaves the held object with the added items at the   *)
(* end of their collection: the objects given, or the one item built.      *)
C12_AddRejectsWrongKind ==
    (last.op \in AddOps /\ HeldBefore) =>
        LET arg == ObjectsArgument(last.op, last.args)
            old == CollectionOf(last.op, pre)
            new == CollectionOf(last.op, proto_obj)
        IN /\ NotOfDeclaredKind(arg) =>
                  last.status # "ok" /\ proto_obj = pre
           /\ last.status = "ok" =>
                  /\ Len(new) >= Len(old)
                  /\ SubSeq(new, 1, Len(old)) = old
                  /\ IF last.op = "add_parameter"
                     THEN /\ Len(new) = Len(old) + 1
                          /\ new[Len(new)].display_name
                                = last.args.display_name.s
                     ELSE IF arg.kind # "None"
                     THEN new = old \o arg.items
                     ELSE Len(new) = Len(old) + 1

(* An add_parameter call was given the empty string as its reprompt event  *)
(* handlers and succeeded.                                                 *)
C12_FalsyArgumentAccepted ==
    /\ last.op = "add_parameter" /\ HeldBefore
    /\ last.args.reprompt_event_handlers.kind = "emptystr"
    /\ last.status = "ok"

----------------------------------------------------------------------------
(* The number of parameters of the Page that have a reprompt event handler.*)
ParametersWithHandlers(page) ==
    Cardinality({i \in 1..Len(page.parameters) :
        page.parameters[i].fill_behavior.reprompt_event_handlers # <<>>})

(* The parameter stats are what the claim says they are for the Page.      *)
ParameterStatsRight ==
    LET n == Len(proto_obj.parameters)
        ratio == stats.parameters_ratio
    IN /\ stats.parameters_count = n
       /\ IF n = 0 THEN ratio.num = 0
          ELSE ratio.num * n = ParametersWithHandlers(proto_obj) * ratio.den

(* C13: after calc_parameter_stats or generate_stats, parameters_count is  *)
(* the number of form parameters and parameters_ratio is 0 for a Page      *)
(* without parameters and otherwise the number of parameters with a        *)
(* reprompt event handler divided by the number of parameters.             *)
C13_ParameterStats ==
    last.op \in {"calc_parameter_stats", "generate_stats"} =>
        ParameterStatsRight

----------------------------------------------------------------------------
ReportingOps ==
    {"show_page_info", "show_stats", "show_transition_route_group",
     "to_dataframe"}

(* C14: a reporting call (show_page_info in any mode, show_stats,          *)
(* show_transition_route_group, to_dataframe) leaves the held object, or   *)
(* the absence of one, as it was, whether the call succeeds or fails.      *)
C14_ReportingChangesNothing ==
    last.op \in ReportingOps => proto_obj = pre

(* A Page with an entry fulfillment and an item was shown whole, and a     *)
(* report of an object with items failed on its mode.                      *)
C14_Witness ==
    /\ last.op \in ReportingOps
    /\ HeldBefore
    /\ Size(pre) > 0
    /\ \/ /\ last.op = "show_page_info" /\ last.args.mode = "whole"
          /\ last.status = "ok" /\ pre.entry_fulfillment # EmptyFulfillment
       \/ /\ last.op = "to_dataframe" /\ last.status = "ValueError"

----------------------------------------------------------------------------
RECURSIVE EntitiesBefore(_, _)
(* The number of entity types on the response pages before page i.         *)
EntitiesBefore(pages, i) ==
    IF i <= 1 THEN 0
    ELSE EntitiesBefore(pages, i - 1) + Len(pages[i - 1])

(* C15: a list_entity_types call that returns, returns every entity type   *)
(* of every response page, each once, in page order and in the order of    *)
(* its page: entity j of page i is at position (number of entities on the  *)
(* pages before i) + j, and the list has no other position.                *)
C15_ListReturnsAllPages ==
    (rpc.op = "list_entity_types" /\ rpc.out.status = "ok") =>
        LET pages == rpc.remote.pages
            entities == rpc.out.response
        IN /\ Len(entities) = EntitiesBefore(pages, Len(pages) + 1)
           /\ \A i \in 1..Len(pages) : \A j \in 1..Len(pages[i]) :
                 entities[EntitiesBefore(pages, i) + j] = pages[i][j]

(* A listing of two pages, the first of them empty and the second full,    *)
(* was returned.                                                           *)
C15_Witness ==
    /\ rpc.op = "list_entity_types" /\ rpc.out.status = "ok"
    /\ Len(rpc.remote.pages) = MaxPages
    /\ rpc.remote.pages[1] = <<>>
    /\ Len(rpc.remote.pages[MaxPages]) = MaxPageSize
    /\ Len(rpc.out.response) = MaxPageSize

----------------------------------------------------------------------------
(* The update requests the last forwarder call issued.                     *)
UpdateRequests ==
    {rpc.out.requests[k] : k \in
        {n \in 1..Len(rpc.out.requests) : rpc.out.requests[n].op = "update"}}

(* C16: every update request update_entity_type issues has as its field    *)
(* mask exactly the names given in **kwargs, and its entity type has the   *)
(* value given for each of those names.                                    *)
C16_MaskIsKeywordNames ==
    rpc.op = "update_entity_type" =>
        \A r \in UpdateRequests :
            /\ r.update_mask = DOMAIN rpc.args.kwargs
            /\ \A key \in DOMAIN rpc.args.kwargs :
                  r.entity_type[key] = rpc.args.kwargs[key]

(* An update was sent for an object given with a language code and two     *)
(* keyword fields, the object having a field that is not among them.       *)
C16_Witness ==
    /\ rpc.op = "update_entity_type"
    /\ UpdateRequests # {}
    /\ DOMAIN rpc.args.kwargs = {"display_name", "kind"}
    /\ EtTruthy(rpc.args.obj)
    /\ rpc.args.language_code.kind = "str"
    /\ \E r \in UpdateRequests : r.entity_type.name # ""

----------------------------------------------------------------------------
(* The entity type id an update_entity_type call is aimed at: the id       *)
(* given, or the id of the instance.                                       *)
TargetId ==
    IF Truthy(rpc.args.entity_type_id) THEN rpc.args.entity_type_id.s
    ELSE self.entity_id.s

UpdateWithObject ==
    rpc.op = "update_entity_type" /\ rpc.args.obj.kind = "EntityType"

(* C17 as claimed: the entity type of every update request of an           *)
(* update_entity_type call that was given an object is named by the target *)
(* id.                                                                     *)
C17_NameIsTargetId ==
    UpdateWithObject =>
        \A r \in UpdateRequests : r.entity_type.name = TargetId

(* C17 as amended: the entity type of every update request of an           *)
(* update_entity_type call that was given an object is named by the target *)
(* id when name is not among the keyword arguments, and by the name given  *)
(* by keyword when it is.                                                  *)
C17_NameIsTargetIdOrKeyword ==
    UpdateWithObject =>
        \A r \in UpdateRequests :
            r.entity_type.name =
                IF "name" \in DOMAIN rpc.args.kwargs
                THEN rpc.args.kwargs["name"] ELSE TargetId

(* An update was sent for an object that carried another name than the     *)
(* target id, with keyword arguments that do not name the name.            *)
C17_Witness ==
    /\ UpdateWithObject
    /\ rpc.args.obj.et.name \notin {"", TargetId}
    /\ "name" \notin DOMAIN rpc.args.kwargs
    /\ \E r \in UpdateRequests : r.entity_type.name = TargetId

(* The create requests the last forwarder call issued.                     *)
CreateRequests ==
    {rpc.out.requests[k] : k \in
        {n \in 1..Len(rpc.out.requests) : rpc.out.requests[n].op = "create"}}

CreateWithObject ==
    rpc.op = "create_entity_type" /\ rpc.args.obj.kind = "EntityType"

(* C18 as claimed: the entity type of every create request of a            *)
(* create_entity_type call that was given an object has an empty name.     *)
C18_NameIsEmpty ==
    CreateWithObject => \A r \in CreateRequests : r.entity_type.name = ""

(* C18 as amended: the entity type of every create request of a            *)
(* create_entity_type call that was given an object has an empty name when *)
(* name is not among the keyword arguments, and the name given by keyword  *)
(* when it is.                                                             *)
C18_NameIsEmptyOrKeyword ==
    CreateWithObject =>
        \A r \in CreateRequests :
            r.entity_type.name =
                IF "name" \in DOMAIN rpc.args.kwargs
                THEN rpc.args.kwargs["name"] ELSE ""

(* A create was sent for an object that carried a name, with keyword       *)
(* arguments that do not name the name.                                    *)
C18_Witness ==
    /\ CreateWithObject
    /\ rpc.args.obj.et.name # ""
    /\ "name" \notin DOMAIN rpc.args.kwargs
    /\ \E r \in CreateRequests :
          r.entity_type.name = "" /\ r.entity_type.display_name # ""

----------------------------------------------------------------------------
(* C19: in every forwarder call, a remote request that fails is the last   *)
(* request of the call and the call raises the error of that request; a    *)
(* call raises a remote error only if its last request failed; and no      *)
(* request (operation, resource, page) is issued twice in one call.        *)
C19_RemoteFailurePropagates ==
    LET requests == rpc.out.requests
        n == Len(requests)
    IN /\ \A k \in 1..n :
             Failed(requests[k].outcome) =>
                 /\ k = n
                 /\ rpc.out.status = "RemoteError"
                 /\ rpc.out.error = requests[k].outcome
       /\ rpc.out.status = "RemoteError" =>
             n > 0 /\ Failed(requests[n].outcome)
       /\ \A i, j \in 1..n :
             (/\ requests[i].op = requests[j].op
              /\ requests[i].target = requests[j].target
              /\ requests[i].page = requests[j].page) => i = j

(* An update_entity_type call fetched the entity type, and its update      *)
(* request failed; a listing failed on its second page.                    *)
C19_Witness ==
    \/ /\ rpc.op = "update_entity_type"
       /\ Len(rpc.out.requests) = 2
       /\ rpc.out.requests[1].outcome = "ok"
       /\ rpc.out.requests[2].outcome = "NotFound"
       /\ rpc.out.error = "NotFound"
    \/ /\ rpc.op = "list_entity_types"
       /\ Len(rpc.out.requests) = 2
       /\ rpc.out.error = "Unavailable"

(* A delete_entity_type call names an entity type: by the object given, by *)
(* the entity_id given, or by the entity_id of the instance.               *)
DeleteIdentifies ==
    /\ rpc.op = "delete_entity_type"
    /\ \/ rpc.args.obj.et.name # ""
       \/ Truthy(rpc.args.entity_id)
       \/ Truthy(self.entity_id)

DeletedId ==
    IF EtTruthy(rpc.args.obj) /\ rpc.args.obj.et.name # ""
    THEN rpc.args.obj.et.name
    ELSE IF Truthy(rpc.args.entity_id) THEN rpc.args.entity_id.s
    ELSE self.entity_id.s

(* C20: a delete_entity_type call that names an entity type issues exactly *)
(* one remote request, a delete for the id of that entity type.            *)
C20_DeleteIssuesOneRequest ==
    DeleteIdentifies =>
        /\ Len(rpc.out.requests) = 1
        /\ rpc.out.requests[1].op = "delete"
        /\ rpc.out.requests[1].target = DeletedId

(* C21: when create_entity_type or update_entity_type is called with an    *)
(* object of the caller and the call fails (a keyword that is no field, no *)
(* region, or a failing remote call), the caller's object is afterwards    *)
(* exactly as it was before the call, its name included.                   *)
FailedCallWithObject ==
    /\ rpc.op \in {"create_entity_type", "update_entity_type"}
    /\ rpc.args.obj.kind = "EntityType"
    /\ rpc.out.status # "ok"

C21_FailureLeavesObjectAsItWas ==
    FailedCallWithObject => rpc.obj_after = rpc.args.obj.et

(* C22: entity_types_to_df in basic mode, once the entity types are        *)
(* listed, returns a frame whose rows ascend by (display_name,             *)
(* entity_value), whatever the listing holds (nothing, or nothing in the   *)
(* subset, included); with a subset given every row is of an entity type   *)
(* whose display name is in the subset.                                    *)
BasicFrameOfListing ==
    /\ rpc.op = "entity_types_to_df"
    /\ rpc.args.mode = "basic"
    /\ list_entity_types(self, [agent_id |-> rpc.args.agent_id],
                         rpc.remote).status = "ok"

C22_BasicFrameIsSorted ==
    BasicFrameOfListing =>
        LET rows == rpc.out.response.entity_types.rows
            subset == rpc.args.entity_type_subset
        IN /\ rpc.out.status = "ok"
           /\ \A i, j \in 1..Len(rows) :
                  i < j => ~row_lt(rows[j], rows[i],
                                   <<"display_name", "entity_value">>)
           /\ subset.items # <<>> =>
                  \A i \in 1..Len(rows) :
                      rows[i].display_name \in Range(subset.items)

(* C23: get_entities_map returns one entry per listed entity type, from id *)
(* to display name, or from display name to id with reverse=True; the      *)
(* reverse map is the inverse of the default map and both have as many     *)
(* entries as entity types are listed.                                     *)
MapReturned == rpc.op = "get_entities_map" /\ rpc.out.status = "ok"

MapListed == Flatten(rpc.remote.pages)

MapKey == IF rpc.args.reverse THEN "display_name" ELSE "name"

MapValue == IF rpc.args.reverse THEN "name" ELSE "display_name"

(* The map the same call returns with the reverse flag the other way.      *)
MapOtherWay ==
    get_entities_map(self, [rpc.args EXCEPT !.reverse = ~@],
                     rpc.remote).response

MapsAreInverse ==
    /\ DOMAIN MapOtherWay = {rpc.out.response[k] :
                                k \in DOMAIN rpc.out.response}
    /\ \A k \in DOMAIN rpc.out.response :
           MapOtherWay[rpc.out.response[k]] = k

C23_OneEntryPerEntityType ==
    MapReturned =>
        /\ \A i \in 1..Len(MapListed) :
               /\ MapListed[i][MapKey] \in DOMAIN rpc.out.response
               /\ rpc.out.response[MapListed[i][MapKey]] =
                      MapListed[i][MapValue]
        /\ Cardinality(DOMAIN rpc.out.response) = Len(MapListed)
        /\ MapsAreInverse

(* The listed entity types have different ids and different display names. *)
MapListedDistinct ==
    \A i, j \in 1..Len(MapListed) :
        i # j => /\ MapListed[i].name # MapListed[j].name
                 /\ MapListed[i].display_name # MapListed[j].display_name

(* C23, amended: the map has one entry per key listed (id, or display name *)
(* with reverse=True), carrying the value of the entity type listed last   *)
(* under that key; when the listed entity types have different ids and     *)
(* different display names, that is one entry per entity type and the      *)
(* reverse map is the inverse of the default map.                          *)
C23_OneEntryPerKey ==
    MapReturned =>
        /\ DOMAIN rpc.out.response =
               {MapListed[i][MapKey] : i \in 1..Len(MapListed)}
        /\ \A i \in 1..Len(MapListed) :
               (\A j \in (i + 1)..Len(MapListed) :
                    MapListed[j][MapKey] # MapListed[i][MapKey])
               => rpc.out.response[MapListed[i][MapKey]] =
                      MapListed[i][MapValue]
        /\ MapListedDistinct =>
               /\ Cardinality(DOMAIN rpc.out.response) = Len(MapListed)
               /\ MapsAreInverse

C23_Witness ==
    /\ MapReturned
    /\ rpc.args.reverse
    /\ Len(MapListed) = 2
    /\ MapListedDistinct
    /\ rpc.out.response = [k \in {"d1", "d2"} |->
                              IF k = "d1" THEN "et1" ELSE "et2"]

(* C24: add_parameter with required=True appends a parameter without a     *)
(* default value, whatever default_value was given; with required=False it *)
(* fails with a ValueError unless default_value is a string, and the       *)
(* parameter it appends carries exactly that default.                      *)
AddedParameter == proto_obj.parameters[Len(proto_obj.parameters)]

RequiredGiven(b) ==
    /\ last.op = "add_parameter"
    /\ last.args.required = BoolArg(b)

C24_DefaultValueOfAddedParameter ==
    /\ RequiredGiven(TRUE) /\ last.status = "ok"
           => AddedParameter.default_value = ""
    /\ RequiredGiven(FALSE) /\ last.args.default_value.kind # "str"
           => /\ last.status # "ok"
              /\ HeldBefore => last.status = "ValueError"
              /\ proto_obj = pre
    /\ RequiredGiven(FALSE) /\ last.status = "ok"
           => /\ last.args.default_value.kind = "str"
              /\ AddedParameter.default_value = last.args.default_value.s

C24_Witness ==
    /\ RequiredGiven(TRUE)
    /\ last.status = "ok"
    /\ last.args.default_value = PyStr("d")
    /\ Len(proto_obj.parameters) = Len(pre.parameters) + 1
    /\ AddedParameter.default_value = ""

C24_OptionalWitness ==
    /\ RequiredGiven(FALSE)
    /\ last.status = "ok"
    /\ AddedParameter.default_value = "d"

RECURSIVE ExpectedFormRows(_, _)
(* The rows the parameters named d are due: one for the initial prompt and *)
(* one per reprompt event handler, for each such parameter.                *)
ExpectedFormRows(params, d) ==
    IF params = <<>> THEN 0
    ELSE ExpectedFormRows(Tail(params), d)
         + (IF Head(params).display_name = d
            THEN 1 + Len(Head(params).fill_behavior.reprompt_event_handlers)
            ELSE 0)

FormRowsOf(d) ==
    {k \in 1..Len(frame.df.rows) :
        frame.df.rows[k].parameter_display_name = d}

(* C25: the frame _create_form_params_df returns holds, for every          *)
(* parameter, the row of its initial prompt and one row per reprompt event *)
(* handler, so every parameter's display name is in the frame, whichever   *)
(* parameters have reprompt event handlers and wherever they stand.        *)
C25_EveryParameterHasItsRows ==
    frame.op = "create_form_params_df" /\ frame.status = "ok" =>
        /\ \A i \in 1..Len(proto_obj.parameters) :
               LET d == proto_obj.parameters[i].display_name
               IN /\ FormRowsOf(d) # {}
                  /\ Cardinality(FormRowsOf(d)) =
                         ExpectedFormRows(proto_obj.parameters, d)
        /\ \A k \in 1..Len(frame.df.rows) :
               \E i \in 1..Len(proto_obj.parameters) :
                   frame.df.rows[k].parameter_display_name =
                       proto_obj.parameters[i].display_name

(* C26: the stats are a function of the Page alone: whenever               *)
(* generate_stats has been called on a PageStats instance, for the first   *)
(* time or again, the counts and the ratio it reports are those a new      *)
(* PageStats of the same Page reports.                                     *)
C26_StatsAreThoseOfANewInstance ==
    last.op = "generate_stats" =>
        stats = generate_stats(PageStats, proto_obj)

(* C27: in the stats show_stats reports for the held Page, the route split *)
(* is a partition: the routes with an intent only, with a condition only   *)
(* and with both add up to the number of transition routes; and the routes *)
(* with a webhook fulfillment are among those with a fulfillment, which    *)
(* are among the routes.                                                   *)
StatsShown == last.op = "show_stats" /\ last.status = "ok"

C27_RouteSplitIsAPartition ==
    StatsShown =>
        /\ stats.intent_routes_count + stats.cond_routes_count
               + stats.intent_and_cond_routes_count
               = stats.transition_routes_count
        /\ stats.routes_with_webhook_fulfill_count
               <= stats.routes_with_fulfill_count
        /\ stats.routes_with_fulfill_count <= stats.transition_routes_count

(* C28: update_entity_type called without an object fetches the entity     *)
(* type with a remote get for the target id before anything else; an       *)
(* update is sent only after that get has returned the entity type, and it *)
(* carries the fetched entity type with the keyword values put on it; when *)
(* the get fails no update is sent.                                        *)
UpdateWithoutObject ==
    rpc.op = "update_entity_type" /\ ~EtTruthy(rpc.args.obj)

FetchTarget ==
    IF Truthy(rpc.args.entity_type_id) THEN rpc.args.entity_type_id
    ELSE self.entity_id

C28_GetBeforeUpdate ==
    UpdateWithoutObject =>
        LET requests == rpc.out.requests
        IN /\ requests # <<>> =>
                  /\ requests[1].op = "get"
                  /\ requests[1].target = FetchTarget.s
           /\ \A k \in 1..Len(requests) :
                  requests[k].op = "update" =>
                      /\ k = 2
                      /\ requests[1].outcome = "ok"
                      /\ \A f \in EntityTypeFields :
                             requests[k].entity_type[f] =
                                 IF f \in DOMAIN rpc.args.kwargs
                                 THEN rpc.args.kwargs[f]
                                 ELSE Stored(FetchTarget.s)[f]
           /\ Failed(rpc.remote.get) => UpdateRequests = {}

(* An update was sent after the fetch, with one keyword value put on the   *)
(* fetched entity type.                                                    *)
C28_Witness ==
    /\ UpdateWithoutObject
    /\ Len(rpc.out.requests) = 2
    /\ rpc.out.requests[1].op = "get"
    /\ rpc.out.requests[2].op = "update"
    /\ rpc.out.requests[2].entity_type = EntityType("et1", "d2", "KIND_MAP")

(* C29: remove_event_handler takes exactly one of event_handlers and       *)
(* event_names: a call that gives both fails and leaves the event handlers *)
(* as they were; a call that gives one of them and succeeds leaves exactly *)
(* the handlers that equal none of the handlers given, respectively whose  *)
(* event is none of the names given, in their order.                       *)
RemoveEventHandlerCalled == last.op = "remove_event_handler"

HandlersGiven == last.args.event_handlers.kind # "None"

NamesGiven == last.args.event_names.kind # "None"

C29_ExactlyOneCriterion ==
    RemoveEventHandlerCalled =>
        /\ HandlersGiven /\ NamesGiven =>
               last.status # "ok" /\ proto_obj = pre
        /\ HandlersGiven /\ ~NamesGiven /\ last.status = "ok" =>
               proto_obj =
                   [pre EXCEPT !.event_handlers =
                       SelectSeqBy(@, {i \in 1..Len(@) :
                           @[i] \notin
                               Range(last.args.event_handlers.items)})]
        /\ NamesGiven /\ ~HandlersGiven /\ last.status = "ok" =>
               proto_obj =
                   [pre EXCEPT !.event_handlers =
                       SelectSeqBy(@, {i \in 1..Len(@) :
                           @[i].event \notin
                               Range(last.args.event_names.items)})]

(* The field of the held object an add call adds to.                       *)
FieldOf(op) ==
    CASE op = "add_parameter" -> "parameters"
      [] op = "add_transition_route" -> "transition_routes"
      [] op = "add_event_handler" -> "event_handlers"
      [] op = "add_transition_route_group" -> "transition_route_groups"

(* C30: after a successful add_parameter, add_transition_route,            *)
(* add_event_handler or add_transition_route_group the collection added to *)
(* is the collection held before followed by the added items in the order  *)
(* given (the objects given, or the one item built from the raw values),   *)
(* and every other collection and field of the held object is as before.   *)
C30_AddAppendsAtTheEnd ==
    (last.op \in AddOps /\ last.status = "ok") =>
        LET field == FieldOf(last.op)
            arg == ObjectsArgument(last.op, last.args)
            old == pre[field]
            new == proto_obj[field]
            added == SubSeq(new, Len(old) + 1, Len(new))
        IN /\ Len(new) >= Len(old)
           /\ SubSeq(new, 1, Len(old)) = old
           /\ proto_obj = [pre EXCEPT ![field] = old \o added]
           /\ IF last.op # "add_parameter" /\ arg.kind # "None"
              THEN added = arg.items
              ELSE Len(added) = 1

(* Two routes given in a list were added to a group that held one route.   *)
C30_Witness ==
    /\ proto_type = "TransitionRouteGroup"
    /\ last.op = "add_transition_route"
    /\ last.status = "ok"
    /\ Len(pre.transition_routes) = 1
    /\ Len(last.args.transition_routes.items) = 2
    /\ last.args.transition_routes.items[1]
           # last.args.transition_routes.items[2]
    /\ proto_obj.transition_routes
           = pre.transition_routes \o last.args.transition_routes.items

====
